---- MODULE Spec2Model ----
\* Model of the ESPHome BLE cross-context event pipeline:
\*   producers  : ESP32BLE::gap_event_handler / gatts_event_handler / gattc_event_handler
\*                running enqueue_ble_event in the Bluetooth stack's context
\*   consumer   : ESP32BLE::loop running in the main loop context
\*   shared     : ble_event_pool_ (EventPool), ble_events_ (LockFreeQueue),
\*                the dropped counter and the wake-up notification socket
EXTENDS Integers, Sequences, FiniteSets

\* ---------------------------------------------------------------- bounds
\* Pool capacity N (MAX_BLE_QUEUE_SIZE of the build, scaled down).
PoolCap == 2
\* Total number of enqueue attempts by the Bluetooth stack in one run.
MaxEvents == 4
\* Largest loop_interval_ (ms) of the runs with a timed select(), their pool
\* capacity and the number of enqueue attempts in them.
MaxInterval == 3
WakeCap == 1
WakeAttempts == 2
\* Number of values of the millisecond clock (uint32_t in the program, scaled
\* down): times are taken modulo ClockModulus.
ClockModulus == 32
\* Pool capacity and number of enqueue attempts of the two-producer scenario.
ScenarioCap == 3
ScenarioAttempts == 5
\* Number of enqueue attempts in the runs that deliver every kind of event.
DispatchAttempts == 3
\* Largest setup priority of a component, and the largest number of
\* retry cycles a component blocks Application::setup for.
MaxPriority == 1
MaxRetry == 2
\* Longest time (ms) one scheduler.call(), component call or yield() takes.
MaxDuration == 1
\* FD_SETSIZE of the build, scaled down.
FdSetSize == 2
MaxSocketCalls == 4
MaxSelectCalls == 2
FeedPeriod == 2
WdtThreshold == 3
\* Descriptors asked about: negative, in range, and FD_SETSIZE itself.
Fds == (-1)..FdSetSize

\* width of the dropped counter (uint16_t dropped, ble.cpp:525)
DroppedModulus == 65536

\* ---------------------------------------------------------------- domains
NoSlot == 0
Producers == {"P1", "P2"}

\* BLEEvent::type_ with one representative GAP sub-kind per dispatch group.
GapQueued == {"GAP_SCAN_RESULT", "GAP_SCAN_COMPLETE", "GAP_ADV_COMPLETE",
              "GAP_READ_RSSI", "GAP_SECURITY"}
GapIgnored == {"GAP_UPDATE_CONN_PARAMS"}
GapUnexpected == {"GAP_OTHER"}
GapKinds == GapQueued \cup GapIgnored \cup GapUnexpected
GattKinds == {"GATTS", "GATTC"}

\* The events the Bluetooth stack delivers in the concurrent runs, and in the
\* two-producer scenario.
StackEvents == {"GAP_SCAN_RESULT", "GAP_UPDATE_CONN_PARAMS", "GATTS"}
ScenarioEvents == {"GAP_SCAN_RESULT", "GATTS", "GATTC"}
DispatchEvents == GapKinds \cup GattKinds

NoEvent == [id |-> 0, kind |-> "NONE"]

VARIABLES
    state_,          \* ESP32BLE::state_
    component_state_, \* Component state of the BLE component: CONSTRUCTION, LOOP or FAILED
    stack_up,        \* TRUE while the Bluetooth stack can deliver callbacks
    free_list,       \* ble_event_pool_: the free-list of slot indices
    ble_events_,     \* ble_events_: FIFO of slot handles
    dropped_count_,  \* ble_events_ dropped counter
    event_,          \* slot -> payload stored in the slot
    notify_fd_,      \* TRUE when the notification socket is open (notify_fd_ >= 0)
    notify_bytes,    \* bytes pending in the notification socket
    read_fds_,       \* Application::read_fds_ bit of the notification socket
    ppc,             \* producer -> position in its handler
    pev,             \* producer -> local BLEEvent *event
    parg,            \* producer -> arguments of the running handler
    cpc,             \* consumer position in ESP32BLE::loop
    ble_event,       \* consumer local BLEEvent *ble_event
    handler_calls,   \* history: handler invocations made for the event held in ble_event
    ble_called,      \* TRUE once Application::loop has called the BLE component in this iteration
    stale_bytes,     \* history: pending notification bytes a select() has already reported
    select_pc,       \* "waiting" while Application::loop is blocked in select(), else "none"
    delay_time,      \* Application::loop local delay_time: the timeout of the current select()
    waited,          \* time the current select() has been blocked for
    woke,            \* history: notifications written during the current or the last select()
    nextId,          \* history: handler invocations so far
    pushLog,         \* history: ids in order of completed pushes
    dispLog,         \* history: ids in order the consumer dispatched them
    relLog,          \* history: ids in order the consumer released them
    dropTotal,       \* history: number of increment_dropped_count calls
    readTotal,       \* history: sum of the values get_and_reset_dropped_count returned
    nLogged,         \* history: number of "Dropped %u BLE events" log lines
    components_,     \* Application::components_
    priority_,       \* component -> [setup, loop]: get_actual_setup_priority, get_loop_priority
    app_pc,          \* position of the main task in Application::setup
    i_,              \* Application::setup local i (counted from 1)
    j_,              \* Application::setup local j (counted from 1)
    component,       \* Application::setup local Component *component
    retry_left,      \* retry cycles after which component->can_proceed() turns true
    retry_K,         \* history: the value retry_left had when the retry began
    sched_calls,     \* history: scheduler.call() calls in the current bring-up retry
    wdt_calls,       \* history: feed_wdt() calls in the current bring-up retry
    call_log,        \* history: components in the order Application::setup called them
    reg_log,         \* history: components in the order they were registered
    setup_log,       \* history: what the current pass of the for loop, or the
                     \* current cycle of the do loop, of Application::setup has done
    shutdown_log,    \* history: the hooks Application::reboot or safe_reboot has
                     \* called, and the restart
    looping_components_,  \* Application::looping_components_
    dump_config_at_, \* Application::dump_config_at_
    loop_interval_,  \* Application::loop_interval_
    last_loop_,      \* Application::last_loop_
    millis_,         \* the value millis() returns
    last_op_end_time,\* Application::loop local last_op_end_time
    looping_at,      \* Application::loop: place of the range-for in looping_components_
    elapsed,         \* Application::loop local elapsed
    high_frequency,  \* what HighFrequencyLoopRequester::is_high_frequency() returned
    next_schedule_in,\* what scheduler.next_schedule_in() returned (NoSchedule: nothing)
    loop_log,        \* history: what the current Application::loop call did, in order
    failed,          \* the components whose component state is FAILED
    loop_ran,        \* history: components whose loop() the current iteration ran
    work,            \* history: ms the calls of the current iteration have taken so far
    dump_log,        \* history: components whose dump_config was called, in order
    socket_fds_,     \* Application::socket_fds_
    socket_fds_changed_,  \* Application::socket_fds_changed_
    max_fd_,         \* Application::max_fd_
    base_read_fds_,  \* Application::base_read_fds_, as the set of descriptors in it
    socket_log,      \* history: the calls of register_socket_fd and
                     \* unregister_socket_fd, in order, with what they returned
    app_read_fds_,   \* Application::read_fds_, as the set of descriptors in it
                     \* (read_fds_ above is its bit for the notification socket)
    reported,        \* history: the descriptors the last select() of
                     \* Application::loop that returned without error found readable
    comp_status,     \* Component::get_component_state() of each component, as the
                     \* set of the status flags in it
    app_state_,      \* Application::app_state_, as the set of the flags in it
    new_app_state,   \* the local new_app_state of Application::setup and loop
    status_log,      \* history: the flag sets the components reported to the
                     \* current iteration or retry cycle, in order
    last_feed,       \* the static last_feed of Application::feed_wdt
    wdt_call,        \* history: the argument of the last feed_wdt call, the time it
                     \* took as now, and whether it fed the hardware watchdog
    since_call,      \* history: ms since the last feed_wdt call
    since_feed       \* history: ms since the last arch_feed_wdt(), NoFeed before the first

bleVars == <<state_, component_state_, stack_up, free_list, ble_events_, dropped_count_,
          event_, notify_fd_, notify_bytes, read_fds_, ppc, pev, parg, cpc, ble_event,
          handler_calls, ble_called, stale_bytes, select_pc, delay_time, waited, woke,
          nextId, pushLog, dispLog, relLog, dropTotal, readTotal, nLogged>>

setupVars == <<components_, priority_, i_, j_, component, retry_left, retry_K,
               sched_calls, wdt_calls, call_log, reg_log, setup_log, shutdown_log>>

loopHist == <<failed, loop_ran, work, dump_log>>

sockCfg == <<socket_fds_, socket_fds_changed_, max_fd_, base_read_fds_, socket_log>>
sockVars == <<sockCfg, app_read_fds_, reported>>

loopVars == <<looping_components_, dump_config_at_, loop_interval_, last_loop_, millis_,
              last_op_end_time, looping_at, elapsed, high_frequency, next_schedule_in,
              loop_log, loopHist, sockVars>>

statusVars == <<comp_status, app_state_, new_app_state, status_log>>

wdtVars == <<last_feed, wdt_call, since_call, since_feed>>

\* since_feed and wdt_call before the first feed and the first call
NoFeed == -1
NoCall == [time |-> 0, now |-> 0, fed |-> FALSE]

appVars == <<setupVars, app_pc, loopVars, statusVars, wdtVars>>

vars == <<bleVars, appVars>>

poolVars == <<free_list, ble_events_, dropped_count_, event_>>
notifyVars == <<notify_fd_, notify_bytes, read_fds_, stale_bytes, woke>>
producerVars == <<ppc, pev, parg>>
consumerVars == <<cpc, ble_event, handler_calls>>
waitVars == <<select_pc, delay_time, waited>>
compVars == <<state_, component_state_, stack_up, ble_called, waitVars>>
histVars == <<nextId, pushLog, dispLog, relLog, dropTotal, readTotal, nLogged>>

\* what Application::loop leaves alone apart from its own variables
loopFrame == <<state_, component_state_, stack_up, ble_called, select_pc, waited, poolVars,
               notifyVars, producerVars, consumerVars, histVars, setupVars>>

\* ---------------------------------------------------------------- helpers
Min(a, b) == IF a < b THEN a ELSE b

IsPrefix(s, t) == Len(s) <= Len(t) /\ SubSeq(t, 1, Len(s)) = s

NoDuplicates(s) == \A i, j \in 1..Len(s) : s[i] = s[j] => i = j

Count(s, x) == Cardinality({i \in 1..Len(s) : s[i] = x})

\* ---------------------------------------------------------------- EventPool / LockFreeQueue
\* the slots of the pool's fixed array
Slots == DOMAIN event_

\* template parameter SIZE of ble_event_pool_: the number of slots of the array
PoolSize == Cardinality(Slots)

\* capacity of ble_events_: the pool's capacity equals the queue's capacity
QueueCap == PoolSize

\* EventPool::allocate: the slot handed out, NoSlot when the pool is exhausted
PoolAllocate(f) == IF f = <<>> THEN NoSlot ELSE Head(f)

\* the free-list after a successful allocate
PoolTake(f) == Tail(f)

\* EventPool::release: the slot goes back on the free-list
PoolRelease(f, s) == Append(f, s)

\* LockFreeQueue::push: fails, changing nothing, when the queue is at capacity
QueuePush(q, s) == IF Len(q) < QueueCap THEN Append(q, s) ELSE q

\* increment_dropped_count on the uint16_t counter
IncrementDropped(c) == (c + 1) % DroppedModulus

\* ---------------------------------------------------------------- Application, constructed
\* the components of the end-to-end scenario
Components == {"A", "B", "C"}
NoComponent == "nullptr"

\* scheduler.next_schedule_in() when no callback is pending (an empty optional)
NoSchedule == -1
\* dump_config_at_ before schedule_dump_config(): behind every component
SizeMax == 255
\* loop_interval_ of an Application whose set_loop_interval was not called (ms)
DefaultLoopInterval == 16

\* Application after construction, nothing registered; the components have the
\* priorities p
AppConstructedWith(p) ==
    /\ components_ = <<>>
    /\ priority_ = p
    /\ app_pc = "register"
    /\ i_ = 0
    /\ j_ = 0
    /\ component = NoComponent
    /\ retry_left = 0
    /\ retry_K = 0
    /\ sched_calls = 0
    /\ wdt_calls = 0
    /\ call_log = <<>>
    /\ reg_log = <<>>
    /\ setup_log = <<>>
    /\ shutdown_log = <<>>
    /\ looping_components_ = <<>>
    /\ dump_config_at_ = SizeMax
    /\ loop_interval_ = DefaultLoopInterval
    /\ last_loop_ = 0
    /\ millis_ = 0
    /\ last_op_end_time = 0
    /\ looping_at = 0
    /\ elapsed = 0
    /\ high_frequency = FALSE
    /\ next_schedule_in = NoSchedule
    /\ loop_log = <<>>
    /\ failed = {}
    /\ loop_ran = <<>>
    /\ work = 0
    /\ dump_log = <<>>
    /\ socket_fds_ = <<>>
    /\ socket_fds_changed_ = FALSE
    /\ max_fd_ = -1
    /\ base_read_fds_ = {}
    /\ socket_log = <<>>
    /\ app_read_fds_ = {}
    /\ reported = {}
    /\ comp_status = [c \in Components |-> {}]
    /\ app_state_ = {}
    /\ new_app_state = {}
    /\ status_log = <<>>
    /\ last_feed = 0
    /\ wdt_call = NoCall
    /\ since_call = 0
    /\ since_feed = NoFeed

\* every component has the default priorities
AppConstructed ==
    AppConstructedWith([c \in Components |-> [setup |-> 0, loop |-> 0]])

\* ---------------------------------------------------------------- initial state
\* ESP32BLE after construction
BleConstructed ==
    /\ state_ = "OFF"
    /\ component_state_ = "CONSTRUCTION"
    /\ stack_up = FALSE
    /\ free_list = [s \in 1..PoolCap |-> s]
    /\ ble_events_ = <<>>
    /\ dropped_count_ = 0
    /\ event_ = [s \in 1..PoolCap |-> NoEvent]
    /\ notify_fd_ = FALSE
    /\ notify_bytes = 0
    /\ read_fds_ = FALSE
    /\ ppc = [p \in Producers |-> "idle"]
    /\ pev = [p \in Producers |-> NoSlot]
    /\ parg = [p \in Producers |-> NoEvent]
    /\ cpc = "idle"
    /\ ble_event = NoSlot
    /\ handler_calls = <<>>
    /\ ble_called = FALSE
    /\ stale_bytes = 0
    /\ select_pc = "none"
    /\ delay_time = 0
    /\ waited = 0
    /\ woke = {}
    /\ nextId = 0
    /\ pushLog = <<>>
    /\ dispLog = <<>>
    /\ relLog = <<>>
    /\ dropTotal = 0
    /\ readTotal = 0
    /\ nLogged = 0

Init ==
    /\ BleConstructed
    /\ AppConstructed

\* ---------------------------------------------------------------- producers
\* Variant of AfterEnqueue in which gap_event_handler notifies the main loop too.
AfterEnqueue_always(kind) == "notify"

\* Where a handler continues after enqueue_ble_event returns: the GATT handlers go
\* on to notify_main_loop_, gap_event_handler returns.
AfterEnqueue(kind) == IF kind \in GattKinds THEN "notify" ELSE "idle"

Return(p, to) ==
    /\ ppc' = [ppc EXCEPT ![p] = to]
    /\ pev' = [pev EXCEPT ![p] = NoSlot]
    /\ parg' = [parg EXCEPT ![p] = IF to = "idle" THEN NoEvent ELSE @]

\* Variant of EnqueueAllocate that waits for the consumer to free a slot instead
\* of taking the drop branch.
EnqueueAllocate_wait(p, kind) ==
    /\ ppc[p] = "idle"
    /\ stack_up
    /\ free_list # <<>>
    /\ nextId' = nextId + 1
    /\ parg' = [parg EXCEPT ![p] = [id |-> nextId + 1, kind |-> kind]]
    /\ pev' = [pev EXCEPT ![p] = PoolAllocate(free_list)]
    /\ free_list' = PoolTake(free_list)
    /\ ppc' = [ppc EXCEPT ![p] = "load"]
    /\ UNCHANGED <<appVars, ble_events_, dropped_count_, event_, notifyVars, consumerVars, compVars,
                   pushLog, dispLog, relLog, dropTotal, readTotal, nLogged>>

\* enqueue_ble_event, allocation: event = ble_event_pool_.allocate(); a null result
\* leads to the drop branch, anything else to load_ble_event.
EnqueueAllocate(p, kind) ==
    /\ ppc[p] = "idle"
    /\ stack_up
    /\ nextId' = nextId + 1
    /\ parg' = [parg EXCEPT ![p] = [id |-> nextId + 1, kind |-> kind]]
    /\ pev' = [pev EXCEPT ![p] = PoolAllocate(free_list)]
    /\ IF PoolAllocate(free_list) = NoSlot
       THEN /\ ppc' = [ppc EXCEPT ![p] = "drop"]
            /\ UNCHANGED free_list
       ELSE /\ free_list' = PoolTake(free_list)
            /\ ppc' = [ppc EXCEPT ![p] = "load"]
    /\ UNCHANGED <<appVars, ble_events_, dropped_count_, event_, notifyVars, consumerVars, compVars,
                   pushLog, dispLog, relLog, dropTotal, readTotal, nLogged>>

\* Variant of EnqueueDrop that returns without counting the drop.
EnqueueDrop_noCount(p) ==
    /\ ppc[p] = "drop"
    /\ dropTotal' = dropTotal + 1
    /\ Return(p, AfterEnqueue(parg[p].kind))
    /\ UNCHANGED <<appVars, free_list, ble_events_, dropped_count_, event_, notifyVars,
                   consumerVars, compVars, nextId, pushLog, dispLog, relLog, readTotal,
                   nLogged>>

\* enqueue_ble_event, event == nullptr: increment_dropped_count(); return
EnqueueDrop(p) ==
    /\ ppc[p] = "drop"
    /\ dropped_count_' = IncrementDropped(dropped_count_)
    /\ dropTotal' = dropTotal + 1
    /\ Return(p, AfterEnqueue(parg[p].kind))
    /\ UNCHANGED <<appVars, free_list, ble_events_, event_, notifyVars, consumerVars, compVars,
                   nextId, pushLog, dispLog, relLog, readTotal, nLogged>>

\* enqueue_ble_event: load_ble_event(event, args...) writes the payload into the slot
EnqueueLoad(p) ==
    /\ ppc[p] = "load"
    /\ event_' = [event_ EXCEPT ![pev[p]] = parg[p]]
    /\ ppc' = [ppc EXCEPT ![p] = "push"]
    /\ UNCHANGED <<appVars, free_list, ble_events_, dropped_count_, notifyVars, pev, parg,
                   consumerVars, compVars, histVars>>

\* Variant of EnqueuePush that pushes the event twice.
EnqueuePush_twice(p) ==
    /\ ppc[p] = "push"
    /\ ble_events_' = QueuePush(QueuePush(ble_events_, pev[p]), pev[p])
    /\ pushLog' = IF ble_events_' # ble_events_ THEN Append(pushLog, parg[p].id) ELSE pushLog
    /\ Return(p, AfterEnqueue(parg[p].kind))
    /\ UNCHANGED <<appVars, free_list, dropped_count_, event_, notifyVars, consumerVars, compVars,
                   nextId, dispLog, relLog, dropTotal, readTotal, nLogged>>

\* enqueue_ble_event: ble_events_.push(event); the result is not looked at
EnqueuePush(p) ==
    /\ ppc[p] = "push"
    /\ ble_events_' = QueuePush(ble_events_, pev[p])
    /\ pushLog' = IF ble_events_' # ble_events_ THEN Append(pushLog, parg[p].id) ELSE pushLog
    /\ Return(p, AfterEnqueue(parg[p].kind))
    /\ UNCHANGED <<appVars, free_list, dropped_count_, event_, notifyVars, consumerVars, compVars,
                   nextId, dispLog, relLog, dropTotal, readTotal, nLogged>>

\* notify_main_loop_: one byte written to the notification socket when it is open
NotifyMainLoop(p) ==
    /\ ppc[p] = "notify"
    /\ notify_bytes' = IF notify_fd_ THEN notify_bytes + 1 ELSE notify_bytes
    /\ Return(p, "idle")
    /\ woke' = IF notify_fd_ /\ select_pc = "waiting"
               THEN woke \cup {[id |-> parg[p].id, disp |-> Len(dispLog)]}
               ELSE woke
    /\ UNCHANGED <<appVars, poolVars, notify_fd_, read_fds_, stale_bytes, consumerVars, compVars,
                   histVars>>

\* ESP32BLE::gap_event_handler: the listed sub-kinds are enqueued; the others
\* return (the unexpected ones after a warning) and change nothing
GapEventHandler_enqueueAll(p, kind) == EnqueueAllocate(p, kind)

GapEventHandler(p, kind) ==
    IF kind \in GapQueued
    THEN EnqueueAllocate(p, kind)
    ELSE /\ ppc[p] = "idle"
         /\ stack_up
         /\ UNCHANGED vars

\* ESP32BLE::gatts_event_handler / gattc_event_handler: enqueue, then notify
GattEventHandler(p, kind) == EnqueueAllocate(p, kind)

Producer(p) ==
    \/ nextId < MaxEvents /\ \E kind \in StackEvents \cap GapKinds : GapEventHandler(p, kind)
    \/ nextId < MaxEvents /\ \E kind \in StackEvents \cap GattKinds : GattEventHandler(p, kind)
    \/ EnqueueDrop(p)
    \/ EnqueueLoad(p)
    \/ EnqueuePush(p)
    \/ NotifyMainLoop(p)

\* ---------------------------------------------------------------- Application::loop, sleep
Max(a, b) == IF a > b THEN a ELSE b

\* auto elapsed = last_op_end_time - this->last_loop_, on uint32_t
\* Variant of Elapsed that subtracts without the unsigned wrap-around.
Elapsed_signed(end_time, last_loop) == end_time - last_loop

Elapsed(end_time, last_loop) == (end_time - last_loop) % ClockModulus

\* the condition of the yield() branch
LoopYields(interval, elapsed_ms, is_high_frequency) ==
    elapsed_ms >= interval \/ is_high_frequency

\* delay_time of the else branch (elapsed < loop_interval_), in uint32_t arithmetic:
\*   delay_time = loop_interval_ - elapsed
\*   next_schedule = scheduler.next_schedule_in().value_or(delay_time)
\*   next_schedule = std::max(next_schedule, delay_time / 2)
\*   delay_time = std::min(next_schedule, delay_time)
LoopDelayTime_noMin(interval, elapsed_ms, next_in) ==
    LET delay == (interval - elapsed_ms) % ClockModulus
        value_or == IF next_in = NoSchedule THEN delay ELSE next_in
    IN  Max(value_or, delay \div 2)

LoopDelayTime_noHalf(interval, elapsed_ms, next_in) ==
    LET delay == (interval - elapsed_ms) % ClockModulus
        value_or == IF next_in = NoSchedule THEN delay ELSE next_in
    IN  Min(value_or, delay)

LoopDelayTime(interval, elapsed_ms, next_in) ==
    LET delay == (interval - elapsed_ms) % ClockModulus
        value_or == IF next_in = NoSchedule THEN delay ELSE next_in
        next_schedule == Max(value_or, delay \div 2)
    IN  Min(next_schedule, delay)

\* ---------------------------------------------------------------- component life cycle
\* Component::call of the BLE component runs loop() only once setup() has been
\* called and the component is not marked failed.
CanCallLoop == cpc = "idle" /\ component_state_ = "LOOP" /\ ~ble_called

\* ESP32BLE::setup: ble_pre_setup_ failing marks the component failed; otherwise
\* the state becomes DISABLED and, with enable_on_boot_, enable() makes it ENABLE.
Setup ==
    /\ component_state_ = "CONSTRUCTION"
    /\ \E pre_ok \in BOOLEAN, enable_on_boot_ \in BOOLEAN :
        IF ~pre_ok
        THEN component_state_' = "FAILED" /\ UNCHANGED state_
        ELSE /\ component_state_' = "LOOP"
             /\ state_' = IF enable_on_boot_ THEN "ENABLE" ELSE "DISABLED"
    /\ UNCHANGED <<appVars, stack_up, ble_called, waitVars, poolVars, notifyVars,
                   producerVars, consumerVars, histVars>>

\* ESP32BLE::enable, called from the main loop context between loop() calls
Enable ==
    /\ cpc = "idle"
    /\ select_pc = "none"
    /\ component_state_ # "CONSTRUCTION"
    /\ state_' = IF state_ # "DISABLED" THEN state_ ELSE "ENABLE"
    /\ UNCHANGED <<appVars, component_state_, stack_up, ble_called, waitVars, poolVars, notifyVars,
                   producerVars, consumerVars, histVars>>

\* ESP32BLE::disable, called from the main loop context between loop() calls
Disable ==
    /\ cpc = "idle"
    /\ select_pc = "none"
    /\ component_state_ # "CONSTRUCTION"
    /\ state_' = IF state_ = "DISABLED" THEN state_ ELSE "DISABLE"
    /\ UNCHANGED <<appVars, component_state_, stack_up, ble_called, waitVars, poolVars, notifyVars,
                   producerVars, consumerVars, histVars>>

\* ---------------------------------------------------------------- consumer: ESP32BLE::loop
\* Variant of LoopInactive that leaves the switch with break instead of return:
\* the body of loop() runs although the component is OFF or DISABLED.
LoopInactive_break ==
    /\ CanCallLoop
    /\ state_ \in {"OFF", "DISABLED"}
    /\ cpc' = "pop"
    /\ ble_called' = TRUE
    /\ UNCHANGED <<appVars, state_, component_state_, stack_up, waitVars, poolVars, notifyVars,
                   producerVars, ble_event, handler_calls, histVars>>

\* case OFF / DISABLED: return
LoopInactive ==
    /\ CanCallLoop
    /\ state_ \in {"OFF", "DISABLED"}
    /\ ble_called' = TRUE
    /\ UNCHANGED <<appVars, state_, component_state_, stack_up, waitVars, poolVars, notifyVars,
                   producerVars, consumerVars, histVars>>

\* case DISABLE: ble_dismantle_ closes the notification socket first; when it
\* fails the component is marked failed, otherwise the state becomes DISABLED.
LoopDisable ==
    /\ CanCallLoop
    /\ state_ = "DISABLE"
    /\ notify_fd_' = FALSE
    /\ notify_bytes' = 0
    /\ stale_bytes' = 0
    /\ ble_called' = TRUE
    /\ \E ok \in BOOLEAN :
        IF ok
        THEN state_' = "DISABLED" /\ stack_up' = FALSE /\ UNCHANGED component_state_
        ELSE component_state_' = "FAILED" /\ UNCHANGED <<state_, stack_up>>
    /\ UNCHANGED <<appVars, poolVars, read_fds_, woke, waitVars, producerVars,
                   consumerVars, histVars>>

\* case ENABLE: state_ = OFF, then ble_setup_; when it fails the component is
\* marked failed (the stack may already deliver callbacks), otherwise the state
\* becomes ACTIVE. setup_event_notification_ runs last and may leave notify_fd_ at -1.
LoopEnable ==
    /\ CanCallLoop
    /\ state_ = "ENABLE"
    /\ ble_called' = TRUE
    /\ \E ok \in BOOLEAN, up \in BOOLEAN, sock \in BOOLEAN :
        IF ok
        THEN /\ state_' = "ACTIVE"
             /\ stack_up' = TRUE
             /\ notify_fd_' = sock
             /\ UNCHANGED component_state_
        ELSE /\ state_' = "OFF"
             /\ component_state_' = "FAILED"
             /\ stack_up' = (stack_up \/ up)
             /\ UNCHANGED notify_fd_
    /\ UNCHANGED <<appVars, poolVars, notify_bytes, read_fds_, stale_bytes, woke, waitVars,
                   producerVars, consumerVars, histVars>>

\* Variant of LoopActive whose drain reads one notification instead of reading
\* until the socket is empty.
LoopActive_drainOne ==
    /\ CanCallLoop
    /\ state_ = "ACTIVE"
    /\ notify_bytes' = IF notify_fd_ /\ read_fds_ /\ notify_bytes > 0
                       THEN notify_bytes - 1 ELSE notify_bytes
    /\ stale_bytes' = IF notify_fd_ /\ read_fds_ /\ stale_bytes > 0
                      THEN stale_bytes - 1 ELSE stale_bytes
    /\ cpc' = "pop"
    /\ ble_called' = TRUE
    /\ UNCHANGED <<appVars, state_, component_state_, stack_up, waitVars, poolVars, notify_fd_,
                   read_fds_, woke, producerVars, ble_event, handler_calls, histVars>>

\* case ACTIVE: break, on to the body of loop(), which starts with
\* drain_event_notifications_: all pending bytes are read when the socket is open
\* and the last select() reported it readable
LoopActive ==
    /\ CanCallLoop
    /\ state_ = "ACTIVE"
    /\ notify_bytes' = IF notify_fd_ /\ read_fds_ THEN 0 ELSE notify_bytes
    /\ stale_bytes' = IF notify_fd_ /\ read_fds_ THEN 0 ELSE stale_bytes
    /\ cpc' = "pop"
    /\ ble_called' = TRUE
    /\ UNCHANGED <<appVars, state_, component_state_, stack_up, waitVars, poolVars, notify_fd_,
                   read_fds_, woke, producerVars, ble_event, handler_calls, histVars>>

\* Variant of LoopPop that takes the newest event of the queue instead of the oldest.
LoopPop_lifo ==
    /\ cpc = "pop"
    /\ IF ble_events_ = <<>>
       THEN /\ ble_event' = NoSlot
            /\ cpc' = "dropped"
            /\ UNCHANGED ble_events_
       ELSE /\ ble_event' = ble_events_[Len(ble_events_)]
            /\ ble_events_' = SubSeq(ble_events_, 1, Len(ble_events_) - 1)
            /\ cpc' = "dispatch"
    /\ UNCHANGED <<appVars, compVars, free_list, dropped_count_, event_, notifyVars, producerVars,
                   handler_calls, histVars>>

\* Variant of LoopPop that returns the event to the pool right after the pop,
\* before it is dispatched.
LoopPop_releaseEarly ==
    /\ cpc = "pop"
    /\ IF ble_events_ = <<>>
       THEN /\ ble_event' = NoSlot
            /\ cpc' = "dropped"
            /\ UNCHANGED <<ble_events_, free_list>>
       ELSE /\ ble_event' = Head(ble_events_)
            /\ ble_events_' = Tail(ble_events_)
            /\ free_list' = PoolRelease(free_list, Head(ble_events_))
            /\ cpc' = "dispatch"
    /\ UNCHANGED <<appVars, compVars, dropped_count_, event_, notifyVars, producerVars,
                   handler_calls, histVars>>

\* Variant of LoopPop whose pop always reports an empty queue: the while loop
\* is never entered.
LoopPop_never ==
    /\ cpc = "pop"
    /\ ble_event' = NoSlot
    /\ cpc' = "dropped"
    /\ UNCHANGED <<appVars, compVars, ble_events_, free_list, dropped_count_, event_, notifyVars,
                   producerVars, handler_calls, histVars>>

\* ble_event = ble_events_.pop(); the while loop ends on nullptr
LoopPop ==
    /\ cpc = "pop"
    /\ IF ble_events_ = <<>>
       THEN /\ ble_event' = NoSlot
            /\ cpc' = "dropped"
            /\ UNCHANGED ble_events_
       ELSE /\ ble_event' = Head(ble_events_)
            /\ ble_events_' = Tail(ble_events_)
            /\ cpc' = "dispatch"
    /\ UNCHANGED <<appVars, compVars, free_list, dropped_count_, event_, notifyVars, producerVars,
                   handler_calls, histVars>>

\* The per-kind handler lists, in registration order. One object may be
\* registered for several kinds.
gap_scan_event_handlers_ == <<"tracker", "proxy">>
gap_event_handlers_ == <<"server", "tracker", "client">>
gatts_event_handlers_ == <<"server", "proxy">>
gattc_event_handlers_ == <<"client", "tracker">>

\* for (auto *handler : list) handler->..._event_handler(...): one call per entry of
\* the list, first to last, each with the event of the popped slot
CallAll(list, handlers, e) ==
    [i \in 1..Len(handlers) |-> [list |-> list, handler |-> handlers[i], id |-> e.id]]

\* case BLEEvent::GAP, switch (gap_event): the case labels of the scan result,
\* of the events dispatched to gap_event_handlers_, and the default
GapBranch(kind) ==
    CASE kind = "GAP_SCAN_RESULT" -> "scan_result"
      [] kind \in {"GAP_SCAN_COMPLETE", "GAP_ADV_COMPLETE", "GAP_READ_RSSI",
                   "GAP_SECURITY"} -> "complete"
      [] kind \in GapKinds -> "unhandled"
      [] OTHER -> "none"

\* the inner switch (gap_event): the member of the event param points to; the
\* default leaves param as it was declared, without a value
GapParam(kind) ==
    CASE kind = "GAP_SCAN_COMPLETE" -> "scan_complete"
      [] kind = "GAP_ADV_COMPLETE" -> "adv_complete"
      [] kind = "GAP_READ_RSSI" -> "read_rssi_complete"
      [] kind = "GAP_SECURITY" -> "security"
      [] OTHER -> "unset"

\* Variant of DispatchCalls whose GATTC case runs over the GATTS handler list.
DispatchCalls_wrongList(e) ==
    CASE e.kind = "GATTS" -> CallAll("gatts", gatts_event_handlers_, e)
      [] e.kind = "GATTC" -> CallAll("gatts", gatts_event_handlers_, e)
      [] GapBranch(e.kind) = "scan_result" ->
             CallAll("gap_scan", gap_scan_event_handlers_, e)
      [] GapBranch(e.kind) = "complete" /\ GapParam(e.kind) # "unset" ->
             CallAll("gap", gap_event_handlers_, e)
      [] OTHER -> <<>>

\* switch (ble_event->type_) with the inner switch (gap_event) of the GAP case
DispatchCalls(e) ==
    CASE e.kind = "GATTS" -> CallAll("gatts", gatts_event_handlers_, e)
      [] e.kind = "GATTC" -> CallAll("gattc", gattc_event_handlers_, e)
      [] GapBranch(e.kind) = "scan_result" ->
             CallAll("gap_scan", gap_scan_event_handlers_, e)
      [] GapBranch(e.kind) = "complete" /\ GapParam(e.kind) # "unset" ->
             CallAll("gap", gap_event_handlers_, e)
      [] OTHER -> <<>>

\* switch (ble_event->type_): the handlers read the payload of the popped slot
LoopDispatch ==
    /\ cpc = "dispatch"
    /\ dispLog' = Append(dispLog, event_[ble_event].id)
    /\ handler_calls' = DispatchCalls(event_[ble_event])
    /\ cpc' = "release"
    /\ UNCHANGED <<appVars, compVars, poolVars, notifyVars, producerVars, ble_event, nextId,
                   pushLog, relLog, dropTotal, readTotal, nLogged>>

\* Variant of LoopRelease that goes on to the next pop without releasing the event.
LoopRelease_leak ==
    /\ cpc = "release"
    /\ relLog' = Append(relLog, event_[ble_event].id)
    /\ ble_event' = NoSlot
    /\ handler_calls' = <<>>
    /\ cpc' = "pop"
    /\ UNCHANGED <<appVars, compVars, poolVars, notifyVars, producerVars,
                   nextId, pushLog, dispLog, dropTotal, readTotal, nLogged>>

\* Variant of LoopRelease that releases the event twice.
LoopRelease_twice ==
    /\ cpc = "release"
    /\ free_list' = PoolRelease(PoolRelease(free_list, ble_event), ble_event)
    /\ event_' = [event_ EXCEPT ![ble_event] = NoEvent]
    /\ relLog' = Append(relLog, event_[ble_event].id)
    /\ ble_event' = NoSlot
    /\ handler_calls' = <<>>
    /\ cpc' = "pop"
    /\ UNCHANGED <<appVars, compVars, ble_events_, dropped_count_, notifyVars, producerVars,
                   nextId, pushLog, dispLog, dropTotal, readTotal, nLogged>>

\* Variant of LoopRelease without the pop that follows it: the same event is
\* dispatched and released again.
LoopRelease_noPop ==
    /\ cpc = "release"
    /\ free_list' = PoolRelease(free_list, ble_event)
    /\ relLog' = Append(relLog, event_[ble_event].id)
    /\ cpc' = "dispatch"
    /\ UNCHANGED <<appVars, compVars, ble_events_, dropped_count_, event_, notifyVars, producerVars,
                   ble_event, handler_calls, nextId, pushLog, dispLog, dropTotal, readTotal,
                   nLogged>>

\* ble_event_pool_.release(ble_event), for every branch of the switch; the pool
\* calls the event's own release(), after which the slot holds no event
LoopRelease ==
    /\ cpc = "release"
    /\ free_list' = PoolRelease(free_list, ble_event)
    /\ event_' = [event_ EXCEPT ![ble_event] = NoEvent]
    /\ relLog' = Append(relLog, event_[ble_event].id)
    /\ ble_event' = NoSlot
    /\ handler_calls' = <<>>
    /\ cpc' = "pop"
    /\ UNCHANGED <<appVars, compVars, ble_events_, dropped_count_, notifyVars, producerVars,
                   nextId, pushLog, dispLog, dropTotal, readTotal, nLogged>>

\* Variant of LoopDropped that logs the value whatever it is.
LoopDropped_logAlways ==
    /\ cpc = "dropped"
    /\ dropped_count_' = 0
    /\ readTotal' = readTotal + dropped_count_
    /\ nLogged' = nLogged + 1
    /\ cpc' = "idle"
    /\ UNCHANGED <<appVars, compVars, free_list, ble_events_, event_, notifyVars, producerVars,
                   ble_event, handler_calls, nextId, pushLog, dispLog, relLog, dropTotal>>

\* dropped = get_and_reset_dropped_count(); logged when dropped > 0
LoopDropped ==
    /\ cpc = "dropped"
    /\ dropped_count_' = 0
    /\ readTotal' = readTotal + dropped_count_
    /\ nLogged' = IF dropped_count_ > 0 THEN nLogged + 1 ELSE nLogged
    /\ cpc' = "idle"
    /\ UNCHANGED <<appVars, compVars, free_list, ble_events_, event_, notifyVars, producerVars,
                   ble_event, handler_calls, nextId, pushLog, dispLog, relLog, dropTotal>>

\* Application::loop, select() between two loop() calls: read_fds_ holds the
\* notification socket exactly when it is registered and has bytes pending
ApplicationSelect ==
    /\ cpc = "idle"
    /\ ble_called
    /\ select_pc = "none"
    /\ read_fds_' = (notify_fd_ /\ notify_bytes > 0)
    /\ stale_bytes' = notify_bytes
    /\ woke' = {}
    /\ ble_called' = FALSE
    /\ UNCHANGED <<appVars, state_, component_state_, stack_up, waitVars, poolVars, notify_fd_,
                   notify_bytes, producerVars, consumerVars, histVars>>

\* Application::loop, an iteration that ends without select(): yield() when the
\* tick interval has elapsed or a high-frequency request is active
ApplicationYield ==
    /\ cpc = "idle"
    /\ ble_called
    /\ select_pc = "none"
    /\ ble_called' = FALSE
    /\ woke' = {}
    /\ UNCHANGED <<appVars, state_, component_state_, stack_up, waitVars, poolVars, notify_fd_,
                   notify_bytes, read_fds_, stale_bytes, producerVars, consumerVars,
                   histVars>>

\* TRUE when select() would report the notification socket readable
NotifyReady == notify_fd_ /\ notify_bytes > 0

\* Variant of SelectEnter that sleeps with delay(delay_time) although a socket is
\* registered: the iteration ends after the full delay, whatever is written.
SelectEnter_plainDelay ==
    /\ cpc = "idle"
    /\ ble_called
    /\ select_pc = "none"
    /\ \E interval \in 1..MaxInterval, elapsed_ms \in 0..MaxInterval,
          next_in \in {NoSchedule} \cup 0..MaxInterval :
          /\ ~LoopYields(interval, elapsed_ms, FALSE)
          /\ delay_time' = LoopDelayTime(interval, elapsed_ms, next_in)
          /\ delay_time' > 0
    /\ waited' = delay_time'
    /\ select_pc' = "waiting"
    /\ woke' = {}
    /\ UNCHANGED <<appVars, state_, component_state_, stack_up, ble_called, poolVars, notify_fd_,
                   notify_bytes, read_fds_, stale_bytes, producerVars, consumerVars,
                   histVars>>

\* Application::loop with a socket registered and a timeout greater than zero:
\* delay_time is computed and select() starts to block
SelectEnter ==
    /\ cpc = "idle"
    /\ ble_called
    /\ select_pc = "none"
    /\ \E interval \in 1..MaxInterval, elapsed_ms \in 0..MaxInterval,
          next_in \in {NoSchedule} \cup 0..MaxInterval :
          /\ ~LoopYields(interval, elapsed_ms, FALSE)
          /\ delay_time' = LoopDelayTime(interval, elapsed_ms, next_in)
          /\ delay_time' > 0
    /\ waited' = 0
    /\ select_pc' = "waiting"
    /\ woke' = {}
    /\ UNCHANGED <<appVars, state_, component_state_, stack_up, ble_called, poolVars, notify_fd_,
                   notify_bytes, read_fds_, stale_bytes, producerVars, consumerVars,
                   histVars>>

\* a millisecond passes in select(): no monitored socket is readable and the
\* timeout has not been reached
SelectTick ==
    /\ select_pc = "waiting"
    /\ ~NotifyReady
    /\ waited + 1 < delay_time
    /\ waited' = waited + 1
    /\ UNCHANGED <<appVars, state_, component_state_, stack_up, ble_called, select_pc, delay_time,
                   poolVars, notifyVars, producerVars, consumerVars, histVars>>

\* select() returns 0: the timeout elapsed with no monitored socket readable
SelectTimeout ==
    /\ select_pc = "waiting"
    /\ ~NotifyReady
    /\ waited + 1 >= delay_time
    /\ waited' = delay_time
    /\ select_pc' = "none"
    /\ read_fds_' = FALSE
    /\ stale_bytes' = notify_bytes
    /\ ble_called' = FALSE
    /\ UNCHANGED <<appVars, state_, component_state_, stack_up, delay_time, poolVars, notify_fd_,
                   notify_bytes, woke, producerVars, consumerVars, histVars>>

\* select() returns > 0 with the notification socket readable
SelectWake ==
    /\ select_pc = "waiting"
    /\ NotifyReady
    /\ select_pc' = "none"
    /\ read_fds_' = TRUE
    /\ stale_bytes' = notify_bytes
    /\ ble_called' = FALSE
    /\ UNCHANGED <<appVars, state_, component_state_, stack_up, delay_time, waited, poolVars,
                   notify_fd_, notify_bytes, woke, producerVars, consumerVars, histVars>>

\* select() returns > 0 because a socket of another component is readable
SelectOther ==
    /\ select_pc = "waiting"
    /\ ~NotifyReady
    /\ select_pc' = "none"
    /\ read_fds_' = FALSE
    /\ stale_bytes' = notify_bytes
    /\ ble_called' = FALSE
    /\ UNCHANGED <<appVars, state_, component_state_, stack_up, delay_time, waited, poolVars,
                   notify_fd_, notify_bytes, woke, producerVars, consumerVars, histVars>>

\* Component::call on a failed component does nothing
ComponentSkip ==
    /\ cpc = "idle"
    /\ ~ble_called
    /\ component_state_ = "FAILED"
    /\ ble_called' = TRUE
    /\ UNCHANGED <<appVars, state_, component_state_, stack_up, waitVars, poolVars, notifyVars,
                   producerVars, consumerVars, histVars>>

Consumer ==
    \/ LoopInactive
    \/ LoopDisable
    \/ LoopEnable
    \/ LoopActive
    \/ LoopPop
    \/ LoopDispatch
    \/ LoopRelease
    \/ LoopDropped

Next ==
    \/ Setup
    \/ Enable
    \/ Disable
    \/ ApplicationSelect
    \/ ApplicationYield
    \/ ComponentSkip
    \/ Consumer
    \/ \E p \in Producers : Producer(p)

Spec == Init /\ [][Next]_vars

\* ---------------------------------------------------------------- two-producer scenario
\* The component is ACTIVE with an untouched pool of n slots: the state right
\* after a loop() call whose ble_setup_ succeeded.
InitActive(n) ==
    /\ state_ = "ACTIVE"
    /\ component_state_ = "LOOP"
    /\ stack_up = TRUE
    /\ free_list = [s \in 1..n |-> s]
    /\ ble_events_ = <<>>
    /\ dropped_count_ = 0
    /\ event_ = [s \in 1..n |-> NoEvent]
    /\ notify_fd_ \in BOOLEAN
    /\ notify_bytes = 0
    /\ read_fds_ = FALSE
    /\ ppc = [p \in Producers |-> "idle"]
    /\ pev = [p \in Producers |-> NoSlot]
    /\ parg = [p \in Producers |-> NoEvent]
    /\ cpc = "idle"
    /\ ble_event = NoSlot
    /\ handler_calls = <<>>
    /\ ble_called = TRUE
    /\ stale_bytes = 0
    /\ select_pc = "none"
    /\ delay_time = 0
    /\ waited = 0
    /\ woke = {}
    /\ nextId = 0
    /\ pushLog = <<>>
    /\ dispLog = <<>>
    /\ relLog = <<>>
    /\ dropTotal = 0
    /\ readTotal = 0
    /\ nLogged = 0
    /\ AppConstructed

\* A pool of ScenarioCap slots; the contexts P1 and P2 take turns, one complete
\* enqueue attempt each, and the consumer runs only after the last attempt.
InitScenario == InitActive(ScenarioCap)

AllProducersIdle == \A q \in Producers : ppc[q] = "idle"

ScenarioTurn(p) ==
    /\ AllProducersIdle
    /\ nextId < ScenarioAttempts
    /\ p = IF nextId % 2 = 0 THEN "P1" ELSE "P2"

ScenarioDrain == AllProducersIdle /\ nextId = ScenarioAttempts

ScenarioProducer(p) ==
    \/ ScenarioTurn(p) /\ \E kind \in ScenarioEvents \cap GapKinds : GapEventHandler(p, kind)
    \/ ScenarioTurn(p) /\ \E kind \in ScenarioEvents \cap GattKinds : GattEventHandler(p, kind)
    \/ EnqueueDrop(p)
    \/ EnqueueLoad(p)
    \/ EnqueuePush(p)
    \/ NotifyMainLoop(p)

ScenarioConsumer ==
    /\ ScenarioDrain
    /\ \/ ApplicationSelect
       \/ ApplicationYield
       \/ LoopActive
       \/ LoopPop
       \/ LoopDispatch
       \/ LoopRelease
       \/ LoopDropped

NextScenario ==
    \/ \E p \in Producers : ScenarioProducer(p)
    \/ ScenarioConsumer

SpecScenario == InitScenario /\ [][NextScenario]_vars

\* ---------------------------------------------------------------- every kind of event
\* The component is ACTIVE; the Bluetooth stack delivers DispatchAttempts events of
\* any kind from its two contexts while the main loop runs.
DispatchProducer(p) ==
    \/ nextId < DispatchAttempts
          /\ \E kind \in DispatchEvents \cap GapKinds : GapEventHandler(p, kind)
    \/ nextId < DispatchAttempts
          /\ \E kind \in DispatchEvents \cap GattKinds : GattEventHandler(p, kind)
    \/ EnqueueDrop(p)
    \/ EnqueueLoad(p)
    \/ EnqueuePush(p)
    \/ NotifyMainLoop(p)

NextDispatch ==
    \/ \E p \in Producers : DispatchProducer(p)
    \/ ApplicationSelect
    \/ ApplicationYield
    \/ LoopActive
    \/ LoopPop
    \/ LoopDispatch
    \/ LoopRelease
    \/ LoopDropped

InitDispatch == InitActive(PoolCap)

SpecDispatch == InitDispatch /\ [][NextDispatch]_vars

\* ---------------------------------------------------------------- the main loop keeps iterating
\* The component stays ACTIVE; the Bluetooth stack delivers DispatchAttempts events
\* of the kinds of DrainEvents and then stops. Application::loop is a
\* while (true) of the firmware's main task: one step of it is always taken.
DrainEvents == {"GAP_SCAN_RESULT", "GATTS"}

DrainProducer(p) ==
    \/ nextId < DispatchAttempts
          /\ \E kind \in DrainEvents \cap GapKinds : GapEventHandler(p, kind)
    \/ nextId < DispatchAttempts
          /\ \E kind \in DrainEvents \cap GattKinds : GattEventHandler(p, kind)
    \/ EnqueueDrop(p)
    \/ EnqueueLoad(p)
    \/ EnqueuePush(p)
    \/ NotifyMainLoop(p)

MainLoop ==
    \/ ApplicationSelect
    \/ ApplicationYield
    \/ LoopActive
    \/ LoopPop
    \/ LoopDispatch
    \/ LoopRelease
    \/ LoopDropped

NextDrain ==
    \/ \E p \in Producers : DrainProducer(p)
    \/ MainLoop

SpecDrain == InitDispatch /\ [][NextDrain]_vars /\ WF_vars(MainLoop)

\* ---------------------------------------------------------------- timed select()
\* The component is ACTIVE; the main loop blocks in select() with a timeout while
\* the Bluetooth stack delivers WakeAttempts events; disable() may be called.
WakeProducer(p) ==
    \/ nextId < WakeAttempts /\ \E kind \in StackEvents \cap GapKinds : GapEventHandler(p, kind)
    \/ nextId < WakeAttempts /\ \E kind \in StackEvents \cap GattKinds : GattEventHandler(p, kind)
    \/ EnqueueDrop(p)
    \/ EnqueueLoad(p)
    \/ EnqueuePush(p)
    \/ NotifyMainLoop(p)

NextWake ==
    \/ \E p \in Producers : WakeProducer(p)
    \/ Disable
    \/ ApplicationSelect
    \/ ApplicationYield
    \/ SelectEnter
    \/ SelectTick
    \/ SelectTimeout
    \/ SelectWake
    \/ SelectOther
    \/ ComponentSkip
    \/ LoopInactive
    \/ LoopDisable
    \/ LoopActive
    \/ LoopPop
    \/ LoopDispatch
    \/ LoopRelease
    \/ LoopDropped

InitWake == InitActive(WakeCap)

SpecWake == InitWake /\ [][NextWake]_vars

\* ---------------------------------------------------------------- Application::setup
Priorities == 0..MaxPriority
\* loop priorities: the default and one above it
LoopPriorities == {0, 1}

SetupPriority(c) == priority_[c].setup
LoopPriority(c) == priority_[c].loop

\* std::stable_sort with the comparator key(a) > key(b): x, the last element of
\* the range, goes behind every element that does not compare after it
StableInsert_beforeEqual(sorted, x, key) ==
    LET n == Cardinality({k \in 1..Len(sorted) : key[sorted[k]] > key[x]})
    IN  SubSeq(sorted, 1, n) \o <<x>> \o SubSeq(sorted, n + 1, Len(sorted))

StableInsert(sorted, x, key) ==
    LET n == Cardinality({k \in 1..Len(sorted) : ~(key[x] > key[sorted[k]])})
    IN  SubSeq(sorted, 1, n) \o <<x>> \o SubSeq(sorted, n + 1, Len(sorted))

RECURSIVE StableSort(_, _)
StableSort(range, key) ==
    IF range = <<>>
    THEN <<>>
    ELSE StableInsert(StableSort(SubSeq(range, 1, Len(range) - 1), key),
                      range[Len(range)], key)

\* the sort of the first n elements only: begin() .. begin() + n
StableSortPrefix_whole(seq, n, key) ==
    StableSort(seq, key)

StableSortPrefix(seq, n, key) ==
    StableSort(SubSeq(seq, 1, n), key) \o SubSeq(seq, n + 1, Len(seq))

\* Application::register_component_(comp)
RegisterComponent(comp) ==
    /\ app_pc = "register"
    /\ components_' =
            IF comp = NoComponent \/ \E k \in 1..Len(components_) : components_[k] = comp
            THEN components_
            ELSE Append(components_, comp)
    /\ reg_log' =
            IF components_' = components_ THEN reg_log ELSE Append(reg_log, comp)
    /\ UNCHANGED <<loopVars, bleVars, setup_log, shutdown_log, priority_, app_pc, i_, j_, component, retry_left, retry_K,
                   sched_calls, wdt_calls, call_log, statusVars, wdtVars>>

\* Application::setup, up to the for loop: the sort by setup priority
SetupSort ==
    /\ app_pc = "register"
    /\ components_' = StableSort(components_, [c \in Components |-> SetupPriority(c)])
    /\ i_' = 1
    /\ app_pc' = "setup_call"
    /\ UNCHANGED <<loopVars, reg_log, bleVars, priority_, j_, component, retry_left, retry_K,
                   sched_calls, wdt_calls, call_log, setup_log, shutdown_log, statusVars, wdtVars>>

\* c->can_proceed() is false: c is the component the for loop is at, blocking,
\* with cycles of the do loop left before it can proceed
Blocked(c, blocking, left) == c = blocking /\ left > 0

\* the calls of one pass of the for loop, in their order
SetupSteps_testFirst(c) == <<c, "can_proceed", "process_to_add", "feed_wdt">>

SetupSteps(c) == <<c, "process_to_add", "feed_wdt", "can_proceed">>

\* one pass of the for loop up to the do loop: the component's first call;
\* can_proceed() is false for the next k retry cycles
SetupCall ==
    /\ app_pc = "setup_call"
    /\ i_ <= Len(components_)
    /\ component' = components_[i_]
    /\ call_log' = Append(call_log, components_[i_])
    /\ \E k \in 0..MaxRetry :
        /\ retry_left' = k
        /\ retry_K' = k
        /\ IF ~Blocked(components_[i_], components_[i_], k)
           THEN /\ i_' = i_ + 1
                /\ setup_log' = SetupSteps(components_[i_])
                /\ UNCHANGED <<components_, app_pc>>
           ELSE /\ components_' =
                       StableSortPrefix(components_, i_,
                                        [c \in Components |-> LoopPriority(c)])
                /\ setup_log' = SetupSteps(components_[i_]) \o <<"stable_sort">>
                /\ app_pc' = "retry_begin"
                /\ UNCHANGED i_
    /\ sched_calls' = 0
    /\ wdt_calls' = 0
    /\ UNCHANGED <<loopVars, reg_log, bleVars, priority_, j_, shutdown_log, statusVars, wdtVars>>

\* the do loop, up to the inner for loop: scheduler.call(); feed_wdt()
RetryBegin ==
    /\ app_pc = "retry_begin"
    /\ sched_calls' = sched_calls + 1
    /\ wdt_calls' = wdt_calls + 1
    /\ j_' = 1
    /\ setup_log' = <<"scheduler", "feed_wdt">>
    /\ app_pc' = "retry_call"
    /\ new_app_state' = {"STATUS_LED_WARNING"}
    /\ status_log' = <<>>
    /\ UNCHANGED <<loopVars, reg_log, bleVars, components_, priority_, i_, component,
                   retry_left, retry_K, call_log, shutdown_log, wdtVars, comp_status, app_state_>>

\* one pass of the inner for loop: components_[j]->call(); feed_wdt()
RetryCall_all ==
    /\ app_pc = "retry_call"
    /\ j_ <= Len(components_)
    /\ call_log' = Append(call_log, components_[j_])
    /\ wdt_calls' = wdt_calls + 1
    /\ j_' = j_ + 1
    /\ setup_log' = setup_log \o <<components_[j_], "feed_wdt">>
    /\ new_app_state' = new_app_state \cup comp_status[components_[j_]]
    /\ app_state_' = app_state_ \cup new_app_state'
    /\ status_log' = Append(status_log, comp_status[components_[j_]])
    /\ UNCHANGED <<loopVars, reg_log, bleVars, components_, priority_, app_pc, i_,
                   component, retry_left, retry_K, sched_calls, shutdown_log, wdtVars, comp_status>>

RetryCall ==
    /\ app_pc = "retry_call"
    /\ j_ <= i_
    /\ call_log' = Append(call_log, components_[j_])
    /\ wdt_calls' = wdt_calls + 1
    /\ j_' = j_ + 1
    /\ setup_log' = setup_log \o <<components_[j_], "feed_wdt">>
    /\ new_app_state' = new_app_state \cup comp_status[components_[j_]]
    /\ app_state_' = app_state_ \cup new_app_state'
    /\ status_log' = Append(status_log, comp_status[components_[j_]])
    /\ UNCHANGED <<loopVars, reg_log, bleVars, components_, priority_, app_pc, i_,
                   component, retry_left, retry_K, sched_calls, shutdown_log, wdtVars, comp_status>>

\* the end of the do loop: yield(); while (!component->can_proceed())
RetryEnd_position ==
    /\ app_pc = "retry_call"
    /\ j_ > i_
    /\ retry_left' = retry_left - 1
    /\ setup_log' = setup_log \o <<"yield", "can_proceed">>
    /\ IF ~Blocked(components_[i_], component, retry_left')
       THEN /\ i_' = i_ + 1
            /\ app_pc' = "setup_call"
       ELSE /\ app_pc' = "retry_begin"
            /\ UNCHANGED i_
    /\ app_state_' = new_app_state
    /\ new_app_state' = {}
    /\ UNCHANGED <<loopVars, reg_log, bleVars, components_, priority_, j_, component, retry_K,
                   sched_calls, wdt_calls, call_log, shutdown_log, wdtVars, comp_status, status_log>>

RetryEnd ==
    /\ app_pc = "retry_call"
    /\ j_ > i_
    /\ retry_left' = retry_left - 1
    /\ setup_log' = setup_log \o <<"yield", "can_proceed">>
    /\ IF ~Blocked(component, component, retry_left')
       THEN /\ i_' = i_ + 1
            /\ app_pc' = "setup_call"
       ELSE /\ app_pc' = "retry_begin"
            /\ UNCHANGED i_
    /\ app_state_' = new_app_state
    /\ new_app_state' = {}
    /\ UNCHANGED <<loopVars, reg_log, bleVars, components_, priority_, j_, component, retry_K,
                   sched_calls, wdt_calls, call_log, shutdown_log, wdtVars, comp_status, status_log>>

\* the end of Application::setup
\* the components of seq that override loop(): calculate_looping_components_
Looping(seq, overriding) == SelectSeq(seq, LAMBDA c : c \in overriding)

\* schedule_dump_config(); calculate_looping_components_()
SetupFinish ==
    /\ app_pc = "setup_call"
    /\ i_ > Len(components_)
    /\ dump_config_at_' = 0
    /\ \E overriding \in SUBSET Components :
           looping_components_' = looping_components_ \o Looping(components_, overriding)
    /\ app_pc' = "setup_done"
    /\ UNCHANGED <<bleVars, setupVars, loop_interval_, last_loop_, millis_, last_op_end_time,
                   looping_at, elapsed, high_frequency, next_schedule_in, loop_log,
                   loopHist, sockVars, statusVars, wdtVars>>

\* the components of a build have any priorities
InitSetup ==
    /\ BleConstructed
    /\ \E p \in [Components -> [setup : Priorities, loop : LoopPriorities]] :
           AppConstructedWith(p)

NextSetup ==
    \/ \E comp \in Components \cup {NoComponent} : RegisterComponent(comp)
    \/ SetupSort
    \/ SetupCall
    \/ RetryBegin
    \/ RetryCall
    \/ RetryEnd
    \/ SetupFinish

SpecSetup == InitSetup /\ [][NextSetup]_vars

\* ---------------------------------------------------------------- Application::reboot
NoHook == [hook |-> "arch_restart", comp |-> NoComponent]

\* one loop from components_.rbegin() to components_.rend() calling hook
ShutdownPass_forward(hook) ==
    [k \in 1..Len(components_) |-> [hook |-> hook, comp |-> components_[k]]]

ShutdownPass(hook) ==
    [k \in 1..Len(components_) |->
        [hook |-> hook, comp |-> components_[Len(components_) + 1 - k]]]

\* Application::run_safe_shutdown_hooks
RunSafeShutdownHooks == ShutdownPass("on_safe_shutdown") \o ShutdownPass("on_shutdown")

\* Application::reboot, called at any time
Reboot ==
    /\ app_pc # "restarted"
    /\ shutdown_log' = ShutdownPass("on_shutdown") \o <<NoHook>>
    /\ app_pc' = "restarted"
    /\ UNCHANGED <<loopVars, bleVars, components_, priority_, i_, j_, component, retry_left,
                   retry_K, sched_calls, wdt_calls, call_log, reg_log, setup_log, statusVars, wdtVars>>

\* Application::safe_reboot, called at any time
SafeReboot ==
    /\ app_pc # "restarted"
    /\ shutdown_log' = RunSafeShutdownHooks \o <<NoHook>>
    /\ app_pc' = "restarted"
    /\ UNCHANGED <<loopVars, bleVars, components_, priority_, i_, j_, component, retry_left,
                   retry_K, sched_calls, wdt_calls, call_log, reg_log, setup_log, statusVars, wdtVars>>

NextReboot ==
    \/ NextSetup
    \/ Reboot
    \/ SafeReboot

SpecReboot == InitSetup /\ [][NextReboot]_vars

\* ---------------------------------------------------------------- Application::feed_wdt
\* uint32_t now = time ? time : millis()
WdtNow(time, clock) == IF time # 0 THEN time ELSE clock

\* Variant of WdtDue that compares without the unsigned wrap-around.
WdtDue_signed(now, last) == now - last > WdtThreshold

\* now - last_feed > 3, in uint32_t arithmetic
WdtDue(now, last) == (now - last) % ClockModulus > WdtThreshold

\* Application::feed_wdt(time): time is 0 for a call without argument. The
\* status LED's call() in the feeding branch is outside the model.
FeedWdt(time) ==
    LET now == WdtNow(time, millis_)
    IN  /\ IF WdtDue(now, last_feed)
           THEN /\ last_feed' = now
                /\ since_feed' = 0
           ELSE UNCHANGED <<last_feed, since_feed>>
        /\ wdt_call' = [time |-> time, now |-> now, fed |-> WdtDue(now, last_feed)]
        /\ since_call' = 0
        /\ UNCHANGED <<bleVars, setupVars, app_pc, loopVars, statusVars>>

\* a millisecond passes; feed_wdt is called at least once every FeedPeriod ms
WdtTick ==
    /\ since_call < FeedPeriod
    /\ millis_' = (millis_ + 1) % ClockModulus
    /\ since_call' = since_call + 1
    /\ since_feed' = IF since_feed = NoFeed THEN NoFeed
                      ELSE Min(since_feed + 1, FeedPeriod + WdtThreshold + 1)
    /\ UNCHANGED <<bleVars, setupVars, app_pc, looping_components_, dump_config_at_,
                   loop_interval_, last_loop_, last_op_end_time, looping_at, elapsed,
                   high_frequency, next_schedule_in, loop_log, loopHist, sockVars, statusVars,
                   last_feed, wdt_call>>

\* feed_wdt() as setup() calls it, feed_wdt(millis()) as loop() calls it
NextWdt ==
    \/ FeedWdt(0)
    \/ FeedWdt(millis_)
    \/ WdtTick

InitWdt == BleConstructed /\ AppConstructed

SpecWdt == InitWdt /\ [][NextWdt]_vars

\* ---------------------------------------------------------------- Application::loop
\* max_fd_ for the registered descriptors fds
MaxFd(fds) ==
    IF fds = <<>>
    THEN -1
    ELSE CHOOSE m \in {fds[k] : k \in 1..Len(fds)} : \A k \in 1..Len(fds) : fds[k] <= m

\* millis() after d more milliseconds
After(d) == (millis_ + d) % ClockModulus

LoopIntervals == (1..MaxInterval) \cup {DefaultLoopInterval}

\* Application::loop up to the for loop: scheduler.call(), which takes d ms;
\* last_op_end_time = millis(); feed_wdt(last_op_end_time)
LoopBegin_componentFirst ==
    /\ app_pc \in {"setup_done", "loop_done"}
    /\ \E d \in 0..MaxDuration :
        /\ millis_' = After(d)
        /\ last_op_end_time' = After(d)
        /\ work' = d
    /\ loop_ran' = <<>>
    /\ loop_log' = <<>>
    /\ looping_at' = 1
    /\ app_pc' = "loop_component"
    /\ new_app_state' = {}
    /\ status_log' = <<>>
    /\ UNCHANGED <<loopFrame, delay_time, looping_components_, dump_config_at_,
                   loop_interval_, last_loop_, elapsed, high_frequency, next_schedule_in,
                   failed, dump_log, sockVars, wdtVars, comp_status, app_state_>>

LoopBegin ==
    /\ app_pc \in {"setup_done", "loop_done"}
    /\ \E d \in 0..MaxDuration :
        /\ millis_' = After(d)
        /\ last_op_end_time' = After(d)
        /\ work' = d
    /\ loop_ran' = <<>>
    /\ loop_log' = <<"scheduler", "feed_wdt">>
    /\ looping_at' = 1
    /\ app_pc' = "loop_component"
    /\ new_app_state' = {}
    /\ status_log' = <<>>
    /\ UNCHANGED <<loopFrame, delay_time, looping_components_, dump_config_at_,
                   loop_interval_, last_loop_, elapsed, high_frequency, next_schedule_in,
                   failed, dump_log, sockVars, wdtVars, comp_status, app_state_>>

\* one pass of the for loop: component->call(), which takes d ms;
\* last_op_end_time = guard.finish(); feed_wdt(last_op_end_time).
\* Component::call runs loop() unless the component is FAILED; loop() marks the
\* component failed or not: fails is one of outcomes
LoopCall_runsFailed(outcomes) ==
    /\ app_pc = "loop_component"
    /\ looping_at <= Len(looping_components_)
    /\ \E d \in 0..MaxDuration :
        /\ millis_' = After(d)
        /\ last_op_end_time' = After(d)
        /\ work' = work + d
    /\ loop_log' = loop_log \o <<looping_components_[looping_at], "feed_wdt">>
    /\ looping_at' = looping_at + 1
    /\ loop_ran' = Append(loop_ran, looping_components_[looping_at])
    /\ \E fails \in outcomes :
           failed' = IF fails THEN failed \cup {looping_components_[looping_at]} ELSE failed
    /\ new_app_state' = new_app_state \cup comp_status[looping_components_[looping_at]]
    /\ app_state_' = app_state_ \cup new_app_state'
    /\ status_log' = Append(status_log, comp_status[looping_components_[looping_at]])
    /\ UNCHANGED <<loopFrame, delay_time, app_pc, looping_components_, dump_config_at_,
                   loop_interval_, last_loop_, elapsed, high_frequency, next_schedule_in,
                   dump_log, sockVars, wdtVars, comp_status>>

LoopCall_noFeed(outcomes) ==
    /\ app_pc = "loop_component"
    /\ looping_at <= Len(looping_components_)
    /\ \E d \in 0..MaxDuration :
        /\ millis_' = After(d)
        /\ last_op_end_time' = After(d)
        /\ work' = work + d
    /\ loop_log' = loop_log \o <<looping_components_[looping_at]>>
    /\ looping_at' = looping_at + 1
    /\ IF looping_components_[looping_at] \in failed
       THEN UNCHANGED <<loop_ran, failed>>
       ELSE /\ loop_ran' = Append(loop_ran, looping_components_[looping_at])
            /\ \E fails \in outcomes :
                   failed' = IF fails
                             THEN failed \cup {looping_components_[looping_at]}
                             ELSE failed
    /\ new_app_state' = new_app_state \cup comp_status[looping_components_[looping_at]]
    /\ app_state_' = app_state_ \cup new_app_state'
    /\ status_log' = Append(status_log, comp_status[looping_components_[looping_at]])
    /\ UNCHANGED <<loopFrame, delay_time, app_pc, looping_components_, dump_config_at_,
                   loop_interval_, last_loop_, elapsed, high_frequency, next_schedule_in,
                   dump_log, sockVars, wdtVars, comp_status>>

LoopCall(outcomes) ==
    /\ app_pc = "loop_component"
    /\ looping_at <= Len(looping_components_)
    /\ \E d \in 0..MaxDuration :
        /\ millis_' = After(d)
        /\ last_op_end_time' = After(d)
        /\ work' = work + d
    /\ loop_log' = loop_log \o <<looping_components_[looping_at], "feed_wdt">>
    /\ looping_at' = looping_at + 1
    /\ IF looping_components_[looping_at] \in failed
       THEN UNCHANGED <<loop_ran, failed>>
       ELSE /\ loop_ran' = Append(loop_ran, looping_components_[looping_at])
            /\ \E fails \in outcomes :
                   failed' = IF fails
                             THEN failed \cup {looping_components_[looping_at]}
                             ELSE failed
    /\ new_app_state' = new_app_state \cup comp_status[looping_components_[looping_at]]
    /\ app_state_' = app_state_ \cup new_app_state'
    /\ status_log' = Append(status_log, comp_status[looping_components_[looping_at]])
    /\ UNCHANGED <<loopFrame, delay_time, app_pc, looping_components_, dump_config_at_,
                   loop_interval_, last_loop_, elapsed, high_frequency, next_schedule_in,
                   dump_log, sockVars, wdtVars, comp_status>>

\* the call of a component whose loop() does not mark it failed
LoopComponent == LoopCall({FALSE})

\* the call of a component whose loop() may mark it failed
LoopComponentMayFail == LoopCall(BOOLEAN)

\* what call_dump_config adds to the log of a loop() call whose cursor is at
DumpConfig(at) == IF at < Len(components_) THEN <<"dump_config">> ELSE <<>>

\* the end of Application::loop, from last_loop_ = last_op_end_time on; the
\* locals are gone with the return
LoopEndQuiet_repeats ==
    /\ last_loop_' = last_op_end_time
    /\ dump_config_at_' = (dump_config_at_ + 1) % (Len(components_) + 1)
    /\ elapsed' = 0
    /\ high_frequency' = FALSE
    /\ next_schedule_in' = NoSchedule
    /\ delay_time' = 0
    /\ work' = 0
    /\ dump_log' = Append(dump_log, components_[(dump_config_at_ % Len(components_)) + 1])
    /\ app_pc' = "loop_done"
    /\ new_app_state' = {}
    /\ UNCHANGED <<loopFrame, looping_components_, loop_interval_, last_op_end_time,
                   looping_at, failed, loop_ran, sockCfg, wdtVars, comp_status, app_state_, status_log>>

LoopEndQuiet ==
    /\ last_loop_' = last_op_end_time
    /\ dump_config_at_' =
           IF dump_config_at_ < Len(components_) THEN dump_config_at_ + 1 ELSE dump_config_at_
    /\ elapsed' = 0
    /\ high_frequency' = FALSE
    /\ next_schedule_in' = NoSchedule
    /\ delay_time' = 0
    /\ work' = 0
    /\ dump_log' =
           IF dump_config_at_ < Len(components_)
           THEN Append(dump_log, components_[dump_config_at_ + 1])
           ELSE dump_log
    /\ app_pc' = "loop_done"
    /\ new_app_state' = {}
    /\ UNCHANGED <<loopFrame, looping_components_, loop_interval_, last_op_end_time,
                   looping_at, failed, loop_ran, sockCfg, wdtVars, comp_status, app_state_, status_log>>

LoopEnd ==
    /\ loop_log' = loop_log \o DumpConfig(dump_config_at_)
    /\ LoopEndQuiet

\* elapsed >= loop_interval_ or a high-frequency request: the entry into yield()
LoopYield_sleeps ==
    /\ app_pc = "loop_component"
    /\ looping_at > Len(looping_components_)
    /\ elapsed' = Elapsed(last_op_end_time, last_loop_)
    /\ \E hf \in BOOLEAN :
        /\ high_frequency' = hf
        /\ LoopYields(loop_interval_, elapsed', hf)
    /\ \E sockets \in BOOLEAN :
        /\ loop_log' = loop_log \o <<IF sockets THEN "select" ELSE "delay">>
    /\ work' = 0
    /\ app_pc' = "loop_yield"
    /\ app_state_' = new_app_state
    /\ UNCHANGED <<loopFrame, delay_time, looping_components_, dump_config_at_,
                   loop_interval_, last_loop_, millis_, last_op_end_time, looping_at,
                   next_schedule_in, failed, loop_ran, dump_log, sockVars,
                   wdtVars, comp_status, new_app_state, status_log>>

LoopYield_keepsFlags ==
    /\ app_pc = "loop_component"
    /\ looping_at > Len(looping_components_)
    /\ elapsed' = Elapsed(last_op_end_time, last_loop_)
    /\ \E hf \in BOOLEAN :
        /\ high_frequency' = hf
        /\ LoopYields(loop_interval_, elapsed', hf)
    /\ loop_log' = loop_log \o <<"yield">>
    /\ work' = 0
    /\ app_pc' = "loop_yield"
    /\ app_state_' = app_state_
    /\ UNCHANGED <<loopFrame, delay_time, looping_components_, dump_config_at_,
                   loop_interval_, last_loop_, millis_, last_op_end_time, looping_at,
                   next_schedule_in, failed, loop_ran, dump_log, sockVars,
                   wdtVars, comp_status, new_app_state, status_log>>

LoopYield ==
    /\ app_pc = "loop_component"
    /\ looping_at > Len(looping_components_)
    /\ elapsed' = Elapsed(last_op_end_time, last_loop_)
    /\ \E hf \in BOOLEAN :
        /\ high_frequency' = hf
        /\ LoopYields(loop_interval_, elapsed', hf)
    /\ loop_log' = loop_log \o <<"yield">>
    /\ work' = 0
    /\ app_pc' = "loop_yield"
    /\ app_state_' = new_app_state
    /\ UNCHANGED <<loopFrame, delay_time, looping_components_, dump_config_at_,
                   loop_interval_, last_loop_, millis_, last_op_end_time, looping_at,
                   next_schedule_in, failed, loop_ran, dump_log, sockVars,
                   wdtVars, comp_status, new_app_state, status_log>>

\* yield() returns after giving d ms to other tasks, and the end of the function
LoopYieldReturn ==
    /\ app_pc = "loop_yield"
    /\ \E d \in 0..MaxDuration : millis_' = After(d)
    /\ UNCHANGED <<app_read_fds_, reported>>
    /\ LoopEnd

\* the descriptors FD_SET puts into base_read_fds_
Monitored(fds) == {fds[k] : k \in 1..Len(fds)} \cap (0..(FdSetSize - 1))

\* Variant of BaseReadFds that never rebuilds the set.
BaseReadFds_stale(changed, fds, base) == base

\* base_read_fds_ at the call of select(): rebuilt from the list when the list
\* has changed
BaseReadFds(changed, fds, base) == IF changed THEN Monitored(fds) ELSE base

\* otherwise: the computation of delay_time, and the entry into select() when a
\* socket is registered (base_read_fds_ is rebuilt if the list has changed, and
\* copied to read_fds_), into delay() when none is
LoopSleep ==
    /\ app_pc = "loop_component"
    /\ looping_at > Len(looping_components_)
    /\ elapsed' = Elapsed(last_op_end_time, last_loop_)
    /\ high_frequency' = FALSE
    /\ ~LoopYields(loop_interval_, elapsed', FALSE)
    /\ \E ns \in {NoSchedule} \cup 0..MaxInterval :
        /\ next_schedule_in' = ns
        /\ delay_time' = LoopDelayTime(loop_interval_, elapsed', ns)
    /\ IF socket_fds_ # <<>>
       THEN /\ base_read_fds_' = BaseReadFds(socket_fds_changed_, socket_fds_, base_read_fds_)
            /\ socket_fds_changed_' = FALSE
            /\ app_read_fds_' = base_read_fds_'
            /\ loop_log' = loop_log \o <<"select">>
            /\ app_pc' = "loop_select"
       ELSE /\ loop_log' = loop_log \o <<"delay">>
            /\ app_pc' = "loop_delay"
            /\ UNCHANGED <<base_read_fds_, socket_fds_changed_, app_read_fds_>>
    /\ UNCHANGED reported
    /\ work' = 0
    /\ app_state_' = new_app_state
    /\ UNCHANGED <<loopFrame, looping_components_, dump_config_at_, loop_interval_,
                   last_loop_, millis_, last_op_end_time, looping_at, failed, loop_ran,
                   dump_log, socket_fds_, max_fd_, socket_log, wdtVars, comp_status, new_app_state,
                   status_log>>

\* Application::is_socket_ready(fd)
IsSocketReady_base(fd) ==
    IF fd < 0 \/ fd >= FdSetSize THEN FALSE ELSE fd \in base_read_fds_

IsSocketReady(fd) ==
    IF fd < 0 \/ fd >= FdSetSize THEN FALSE ELSE fd \in app_read_fds_

\* delay(delay_time) returns, and the end of the function
LoopDelayReturn ==
    /\ app_pc = "loop_delay"
    /\ millis_' = After(delay_time)
    /\ UNCHANGED <<app_read_fds_, reported>>
    /\ LoopEnd

\* select() returns 0 when the timeout has passed, or the number of readable
\* descriptors, which it leaves in read_fds_, before that; the end of the function
LoopSelectReturn ==
    /\ app_pc = "loop_select"
    /\ \E ready \in SUBSET app_read_fds_ :
        /\ app_read_fds_' = ready
        /\ reported' = ready
        /\ IF ready = {}
           THEN millis_' = After(delay_time)
           ELSE \E d \in 0..delay_time : millis_' = After(d)
    /\ LoopEnd

\* select() returns -1 with errno EINTR, within the timeout and with read_fds_
\* left in any state; no delay, the end of the function
LoopSelectInterrupted ==
    /\ app_pc = "loop_select"
    /\ \E d \in 0..delay_time : millis_' = After(d)
    /\ app_read_fds_' \in SUBSET app_read_fds_
    /\ reported' = {}
    /\ loop_log' = loop_log \o <<"EINTR">> \o DumpConfig(dump_config_at_)
    /\ LoopEndQuiet

\* select() returns -1 with another errno, at once and with read_fds_ left in
\* any state: the entry into delay(delay_time)
LoopSelectError_noDelay ==
    /\ app_pc = "loop_select"
    /\ \E d \in 0..Min(MaxDuration, delay_time) : millis_' = After(d)
    /\ app_read_fds_' \in SUBSET app_read_fds_
    /\ reported' = {}
    /\ loop_log' = loop_log \o <<"select_failed">> \o DumpConfig(dump_config_at_)
    /\ LoopEndQuiet

LoopSelectError ==
    /\ app_pc = "loop_select"
    /\ \E d \in 0..Min(MaxDuration, delay_time) : millis_' = After(d)
    /\ app_read_fds_' \in SUBSET app_read_fds_
    /\ reported' = {}
    /\ loop_log' = loop_log \o <<"select_failed", "delay">>
    /\ app_pc' = "loop_delay"
    /\ UNCHANGED <<loopFrame, delay_time, looping_components_, dump_config_at_,
                   loop_interval_, last_loop_, last_op_end_time, looping_at, elapsed,
                   high_frequency, next_schedule_in, loopHist, sockCfg, statusVars, wdtVars>>

\* Application after setup() of A, B and C, registered in that order with the
\* priorities p: some of them override loop(), those of one of the sets of
\* failures were marked failed by their setup(), loop_interval_ is one of
\* intervals, the descriptors of one of sockets were registered
LoopReady(p, intervals, failures, sockets) ==
    /\ BleConstructed
    /\ components_ = StableSort(<<"A", "B", "C">>, [c \in Components |-> p[c].setup])
    /\ priority_ = p
    /\ app_pc = "setup_done"
    /\ i_ = 4
    /\ j_ = 0
    /\ component = components_[3]
    /\ retry_left = 0
    /\ retry_K = 0
    /\ sched_calls = 0
    /\ wdt_calls = 0
    /\ call_log = components_
    /\ reg_log = <<"A", "B", "C">>
    /\ setup_log = <<components_[3], "process_to_add", "feed_wdt", "can_proceed">>
    /\ shutdown_log = <<>>
    /\ \E overriding \in SUBSET Components :
           looping_components_ = Looping(components_, overriding)
    /\ dump_config_at_ = 0
    /\ loop_interval_ \in intervals
    /\ last_loop_ = 0
    /\ millis_ = 0
    /\ last_op_end_time = 0
    /\ looping_at = 0
    /\ elapsed = 0
    /\ high_frequency = FALSE
    /\ next_schedule_in = NoSchedule
    /\ loop_log = <<>>
    /\ failed \in failures
    /\ loop_ran = <<>>
    /\ work = 0
    /\ dump_log = <<>>
    /\ socket_fds_ \in sockets
    /\ socket_fds_changed_ = (socket_fds_ # <<>>)
    /\ max_fd_ = MaxFd(socket_fds_)
    /\ base_read_fds_ = {}
    /\ socket_log = <<>>
    /\ app_read_fds_ = {}
    /\ reported = {}
    /\ comp_status = [c \in Components |-> {}]
    /\ app_state_ = {}
    /\ new_app_state = {}
    /\ status_log = <<>>
    /\ last_feed = 0
    /\ wdt_call = NoCall
    /\ since_call = 0
    /\ since_feed = NoFeed

\* no component has failed in setup(), all have the default priorities
InitLoop ==
    LoopReady([c \in Components |-> [setup |-> 0, loop |-> 0]], LoopIntervals, {{}},
              {<<>>, <<0>>})

NextLoop ==
    \/ LoopBegin
    \/ LoopComponent
    \/ LoopYield
    \/ LoopYieldReturn
    \/ LoopSleep
    \/ LoopDelayReturn
    \/ LoopSelectReturn
    \/ LoopSelectInterrupted
    \/ LoopSelectError

SpecLoop == InitLoop /\ [][NextLoop]_vars

\* ---------------------------------------------------------------- socket registration
\* what register_socket_fd and unregister_socket_fd leave alone; both are
\* called from the main loop context, by code that a component call runs
SocketFrame ==
    UNCHANGED <<bleVars, setupVars, app_pc, looping_components_, dump_config_at_,
                loop_interval_, last_loop_, millis_, last_op_end_time, looping_at, elapsed,
                high_frequency, next_schedule_in, loop_log, loopHist, base_read_fds_,
                app_read_fds_, reported, statusVars, wdtVars>>

\* Application::register_socket_fd(fd)
RegisterSocketFd(fd) ==
    /\ IF fd < 0 \/ fd >= FdSetSize
       THEN /\ socket_log' = Append(socket_log, <<"register", fd, FALSE>>)
            /\ UNCHANGED <<socket_fds_, socket_fds_changed_, max_fd_>>
       ELSE /\ socket_fds_' = Append(socket_fds_, fd)
            /\ socket_fds_changed_' = TRUE
            /\ max_fd_' = IF fd > max_fd_ THEN fd ELSE max_fd_
            /\ socket_log' = Append(socket_log, <<"register", fd, TRUE>>)
    /\ SocketFrame

\* std::find: the position of the first element of fds equal to fd, 0 for end()
Find(fds, fd) ==
    IF \E k \in 1..Len(fds) : fds[k] = fd
    THEN CHOOSE k \in 1..Len(fds) : fds[k] = fd /\ \A j \in 1..(k - 1) : fds[j] # fd
    ELSE 0

\* the element at k swapped with the last one, and pop_back
SwapAndPop(fds, k) == SubSeq([fds EXCEPT ![k] = fds[Len(fds)]], 1, Len(fds) - 1)

\* Variant of MaxAfterRemoval that keeps max_fd_ whatever was removed.
MaxAfterRemoval_kept(fd, max, rest) == max

\* max_fd_ after fd was removed and rest is left: recalculated only when fd was
\* the maximum
MaxAfterRemoval(fd, max, rest) == IF fd = max THEN MaxFd(rest) ELSE max

\* Application::unregister_socket_fd(fd)
UnregisterSocketFd(fd) ==
    /\ IF fd < 0 \/ Find(socket_fds_, fd) = 0
       THEN UNCHANGED <<socket_fds_, socket_fds_changed_, max_fd_>>
       ELSE /\ socket_fds_' = SwapAndPop(socket_fds_, Find(socket_fds_, fd))
            /\ socket_fds_changed_' = TRUE
            /\ max_fd_' = MaxAfterRemoval(fd, max_fd_, socket_fds_')
    /\ socket_log' = Append(socket_log, <<"unregister", fd, fd >= 0 /\ Find(socket_fds_, fd) # 0>>)
    /\ SocketFrame

\* the application after construction; components register and unregister
\* descriptors, MaxSocketCalls calls in all
NextSocket ==
    \/ \E fd \in Fds : Len(socket_log) < MaxSocketCalls /\ RegisterSocketFd(fd)
    \/ \E fd \in Fds : Len(socket_log) < MaxSocketCalls /\ UnregisterSocketFd(fd)

InitSocket == BleConstructed /\ AppConstructed

SpecSocket == InitSocket /\ [][NextSocket]_vars

\* ---------------------------------------------------------------- sockets that come and go
\* One looping component, a loop interval of 1 ms and one registered
\* descriptor; the component's loop()
\* registers and unregisters descriptors, MaxSelectCalls calls in all, while
\* the configurations are dumped.
SelectFds == 0..(FdSetSize - 1)

SelectLoopBegin == dump_config_at_ < Len(components_) /\ LoopBegin

SelectRegister ==
    /\ app_pc = "loop_component"
    /\ Len(socket_log) < MaxSelectCalls
    /\ \E fd \in SelectFds : RegisterSocketFd(fd)

SelectUnregister ==
    /\ app_pc = "loop_component"
    /\ Len(socket_log) < MaxSelectCalls
    /\ \E fd \in SelectFds : UnregisterSocketFd(fd)

InitSelect ==
    /\ LoopReady([c \in Components |-> [setup |-> 0, loop |-> 0]], {1}, {{}}, {<<0>>})
    /\ Len(looping_components_) = 1

NextSelect ==
    \/ SelectLoopBegin
    \/ LoopComponent
    \/ SelectRegister
    \/ SelectUnregister
    \/ LoopYield
    \/ LoopYieldReturn
    \/ LoopSleep
    \/ LoopDelayReturn
    \/ LoopSelectReturn
    \/ LoopSelectInterrupted
    \/ LoopSelectError

SpecSelect == InitSelect /\ [][NextSelect]_vars

\* ---------------------------------------------------------------- status flags
\* the flags of a component state that the status word aggregates
StatusFlags == {"STATUS_LED_WARNING", "STATUS_LED_ERROR"}

\* a component changes its status, to no flag or to one, in code that one of
\* its calls runs
ComponentStatus ==
    /\ app_pc \in {"retry_call", "loop_component"}
    /\ \E k \in 1..Len(components_), flags \in {{}} \cup {{f} : f \in StatusFlags} :
        /\ flags # comp_status[components_[k]]
        /\ comp_status' = [comp_status EXCEPT ![components_[k]] = flags]
    /\ UNCHANGED <<bleVars, setupVars, app_pc, loopVars, app_state_, new_app_state,
                   status_log, wdtVars>>

\* Application::loop is called while a component's configuration is yet to
\* be dumped
StatusLoopBegin == dump_config_at_ < Len(components_) /\ LoopBegin

\* two components of the default priorities, from construction on, and a
\* loop that yields
InitStatus ==
    /\ BleConstructed
    /\ AppConstructedWith([c \in Components |-> [setup |-> 0, loop |-> 0]])

NextStatus ==
    \/ \E comp \in {"A", "B"} : RegisterComponent(comp)
    \/ SetupSort
    \/ SetupCall
    \/ RetryBegin
    \/ RetryCall
    \/ RetryEnd
    \/ SetupFinish
    \/ ComponentStatus
    \/ StatusLoopBegin
    \/ LoopComponent
    \/ LoopYield
    \/ LoopYieldReturn

SpecStatus == InitStatus /\ [][NextStatus]_vars

\* ---------------------------------------------------------------- failing components
\* the end-to-end scenario: A(10), B(5), C(5), run with a loop interval of 1 ms;
\* setup() marked any of A and C failed, loop() may mark any component failed
ScenarioPriority == [c \in Components |-> [setup |-> IF c = "A" THEN 10 ELSE 5, loop |-> 0]]

InitFail == LoopReady(ScenarioPriority, {1}, SUBSET {"A", "C"}, {<<>>, <<0>>})

NextFail ==
    \/ LoopBegin
    \/ LoopComponentMayFail
    \/ LoopYield
    \/ LoopYieldReturn
    \/ LoopSleep
    \/ LoopDelayReturn
    \/ LoopSelectReturn
    \/ LoopSelectInterrupted
    \/ LoopSelectError

SpecFail == InitFail /\ [][NextFail]_vars

\* ================================================================ properties
\* number of live handles to slot s: on the free-list, held by a producer
\* (between allocate and push), in the queue, held by the consumer (between pop
\* and release)
FreeHandles(s) == Count(free_list, s)
ProducerHandles(s) == Cardinality({p \in Producers : pev[p] = s})
QueueHandles(s) == Count(ble_events_, s)
ConsumerHandles(s) == IF ble_event = s THEN 1 ELSE 0
Handles(s) == FreeHandles(s) + ProducerHandles(s) + QueueHandles(s) + ConsumerHandles(s)

\* allocated-but-not-released slots
NumOutstanding ==
    Cardinality({p \in Producers : pev[p] # NoSlot}) + Len(ble_events_)
        + (IF ble_event # NoSlot THEN 1 ELSE 0)

Range(s) == {s[i] : i \in 1..Len(s)}

\* ids of the events in the queue, oldest first
QueuedIds == [i \in 1..Len(ble_events_) |-> event_[ble_events_[i]].id]

\* C1: the number of outstanding (allocated-but-not-released) slots never exceeds
\* the pool capacity N, and with N slots outstanding allocate returns "none": a
\* producer whose attempt found N slots outstanding is in the drop branch with a
\* null event.
C1_PoolCapacity ==
    /\ NumOutstanding <= PoolSize
    /\ NumOutstanding = PoolSize => PoolAllocate(free_list) = NoSlot
    /\ \A p \in Producers : ppc[p] \in {"load", "push"} => pev[p] \in Slots
    /\ \A p \in Producers : ppc[p] = "drop" => pev[p] = NoSlot

C1_Witness ==
    /\ NumOutstanding = PoolSize
    /\ \E p \in Producers : ppc[p] = "drop"
    /\ relLog # <<>>

\* C2: free slots plus in-flight slots equal N in every state, and every slot is
\* in exactly one place (none lost, none counted twice).
C2_Conservation ==
    /\ Len(free_list) + NumOutstanding = PoolSize
    /\ \A s \in Slots : Handles(s) = 1

C2_Witness ==
    /\ \E p \in Producers : ppc[p] = "load"
    /\ cpc = "release"
    /\ relLog # <<>>
    /\ Len(free_list) = PoolSize - 2

\* C3: the consumer receives the events in the order their pushes completed:
\* what was dispatched, then the event being dispatched, then the queue contents,
\* is exactly the sequence of completed pushes.
C3_Fifo ==
    /\ IsPrefix(dispLog, pushLog)
    /\ pushLog = dispLog
                 \o (IF cpc = "dispatch" THEN <<event_[ble_event].id>> ELSE <<>>)
                 \o QueuedIds

C3_Witness ==
    /\ Len(dispLog) >= 3
    /\ \E i \in 1..(Len(pushLog) - 1) : pushLog[i] > pushLog[i + 1]
    /\ dispLog = pushLog

\* C4: an enqueue attempt on an exhausted pool takes the drop branch; the drop
\* adds exactly 1 to the dropped counter, pushes nothing and leaves the queue,
\* the free-list and every slot's payload unchanged.
C4_DropStep ==
    [][\A p \in Producers :
          /\ (ppc[p] = "idle" /\ ppc'[p] # "idle" /\ free_list = <<>>)
                => /\ ppc'[p] = "drop"
                   /\ pev'[p] = NoSlot
                   /\ UNCHANGED <<free_list, ble_events_, event_, pushLog, dropped_count_>>
          /\ (ppc[p] = "drop" /\ ppc'[p] # "drop")
                => /\ dropped_count_' = dropped_count_ + 1
                   /\ ppc'[p] \in {"idle", "notify"}
                   /\ UNCHANGED <<free_list, ble_events_, event_, pushLog>>]_vars

C4_Witness ==
    /\ dropTotal = 2
    /\ dropped_count_ = 2
    /\ ble_events_ # <<>>
    /\ Len(pushLog) = PoolSize

\* C5: whenever a producer holds a freshly allocated slot (between allocate and
\* push) the queue has free space, so the push appends the slot.
C5_PushSucceeds ==
    \A p \in Producers : ppc[p] \in {"load", "push"} => Len(ble_events_) < QueueCap

C5_Witness ==
    /\ \E p \in Producers : ppc[p] = "push" /\ Len(ble_events_) = QueueCap - 1
    /\ relLog # <<>>

\* C6: every pushed event is dispatched at most once and released exactly once,
\* after its dispatch; no event is pushed twice, no slot is released twice or
\* held by two live handles.
C6_ExactlyOnce ==
    /\ NoDuplicates(pushLog)
    /\ NoDuplicates(dispLog)
    /\ NoDuplicates(relLog)
    /\ Range(dispLog) \subseteq Range(pushLog)
    /\ relLog = IF cpc = "release" THEN SubSeq(dispLog, 1, Len(dispLog) - 1) ELSE dispLog
    /\ \A s \in Slots : Handles(s) <= 1

C6_Witness ==
    /\ Len(relLog) = MaxEvents
    /\ ble_events_ = <<>>
    /\ cpc = "idle"

\* C7: no slot is accessed by two contexts at once: a slot a producer is filling
\* is not in the queue, not held by the consumer, not held by the other producer
\* and not on the free-list; a slot the consumer is dispatching is not on the
\* free-list, so allocate cannot hand it out.
C7_NoSharedAccess ==
    /\ \A p \in Producers : pev[p] # NoSlot =>
          /\ ble_event # pev[p]
          /\ QueueHandles(pev[p]) = 0
          /\ FreeHandles(pev[p]) = 0
          /\ \A q \in Producers \ {p} : pev[q] # pev[p]
    /\ ble_event # NoSlot =>
          /\ FreeHandles(ble_event) = 0
          /\ QueueHandles(ble_event) = 0

C7_Witness ==
    /\ cpc = "dispatch"
    /\ \E p \in Producers : ppc[p] = "load"
    /\ relLog # <<>>
    /\ free_list = <<>>

\* C8: with no consumer activity, ScenarioAttempts attempts made in turn by P1 and
\* P2 on a pool of N slots give min(attempts, N) pushes, in arrival order, and
\* attempts - min(attempts, N) drops; the loop() call that drains the queue pops
\* the pushed events in that order and reads the number of drops from the counter.
\* (N = 3 and 5 attempts: 3 pushes, 2 drops, counter read 2.)
C8_Scenario ==
    /\ ScenarioDrain =>
          /\ pushLog = [i \in 1..Min(ScenarioAttempts, PoolSize) |-> i]
          /\ dropTotal = ScenarioAttempts - Min(ScenarioAttempts, PoolSize)
    /\ (ScenarioDrain /\ cpc = "idle" /\ dispLog # <<>>) =>
          /\ dispLog = pushLog
          /\ relLog = pushLog
          /\ readTotal = dropTotal
          /\ nLogged = (IF dropTotal > 0 THEN 1 ELSE 0)
          /\ dropped_count_ = 0
    /\ ~ScenarioDrain => cpc = "idle" /\ dispLog = <<>> /\ readTotal = 0

C8_Witness ==
    /\ ScenarioDrain
    /\ PoolSize = 3
    /\ cpc = "idle"
    /\ pushLog = <<1, 2, 3>>
    /\ dispLog = <<1, 2, 3>>
    /\ dropTotal = 2
    /\ readTotal = 2
    /\ nLogged = 1

\* steps a producer has left before its handler returns
Rank(pc) ==
    CASE pc = "idle" -> 0
      [] pc = "notify" -> 1
      [] pc = "push" -> 2
      [] pc = "drop" -> 2
      [] pc = "load" -> 3

\* C9: a producer never waits on the consumer: in every state, whatever the
\* consumer is doing, a delivered event can start its enqueue attempt and every
\* started attempt can take its next step; each step brings the handler closer to
\* its return, which comes after a push or a drop.
C9_NeverWaits ==
    /\ [](\A p \in Producers :
            /\ (ppc[p] = "idle" /\ stack_up) =>
                  \A kind \in GapQueued \cup GattKinds : ENABLED EnqueueAllocate(p, kind)
            /\ ppc[p] = "drop" => ENABLED EnqueueDrop(p)
            /\ ppc[p] = "load" => ENABLED EnqueueLoad(p)
            /\ ppc[p] = "push" => ENABLED EnqueuePush(p)
            /\ ppc[p] = "notify" => ENABLED NotifyMainLoop(p))
    /\ [][\A p \in Producers :
            /\ ppc'[p] # ppc[p] => Rank(ppc'[p]) < Rank(ppc[p]) \/ ppc[p] = "idle"
            /\ (ppc[p] = "drop" /\ ppc'[p] # "drop")
                  => dropTotal' = dropTotal + 1
            /\ (ppc[p] = "push" /\ ppc'[p] # "push")
                  => pushLog' = Append(pushLog, parg[p].id)]_vars

C9_Witness ==
    /\ cpc = "dispatch"
    /\ free_list = <<>>
    /\ \E p \in Producers : ppc[p] = "drop"
    /\ \E p \in Producers : ppc[p] = "idle" /\ stack_up

\* C10: the consumer reads and resets the dropped counter once per active loop
\* iteration, at its end, and no increment is lost: the values returned so far
\* plus the counter equal the number of drops; a value is logged only when it is
\* greater than 0.
C10_DroppedCounter ==
    /\ [](readTotal + dropped_count_ = dropTotal)
    /\ [][/\ (cpc # "idle" /\ cpc' = "idle")
                => readTotal' = readTotal + dropped_count_ /\ dropped_count_' = 0
          /\ (readTotal' # readTotal \/ dropped_count_' < dropped_count_)
                => cpc = "dropped" /\ cpc' = "idle"
          /\ nLogged' # nLogged
                => dropped_count_ > 0 /\ nLogged' = nLogged + 1 /\ cpc = "dropped"]_vars

C10_Witness ==
    /\ readTotal = 1
    /\ dropped_count_ = 1
    /\ nLogged = 1
    /\ cpc = "dropped"

\* the handler list an event of the given kind is registered under
ListOf(kind) ==
    CASE kind = "GATTS" -> "gatts"
      [] kind = "GATTC" -> "gattc"
      [] kind = "GAP_SCAN_RESULT" -> "gap_scan"
      [] kind \in GapQueued \ {"GAP_SCAN_RESULT"} -> "gap"
      [] OTHER -> "none"

Registered(list) ==
    CASE list = "gatts" -> gatts_event_handlers_
      [] list = "gattc" -> gattc_event_handlers_
      [] list = "gap_scan" -> gap_scan_event_handlers_
      [] list = "gap" -> gap_event_handlers_
      [] OTHER -> <<>>

\* C11: an active loop() call pops until the queue is empty; once an event has
\* been dispatched, every handler registered for its kind has been called with it,
\* once each, in registration order, and nothing else has been called; handlers
\* are called only between an event's pop and its release; a slot goes back to
\* the pool only after its event's handlers ran, and the next pop comes only
\* after that release.
C11_Dispatch ==
    /\ [](cpc = "release" =>
            LET e == event_[ble_event]
                hs == Registered(ListOf(e.kind))
            IN  /\ e.kind \in GapQueued \cup GattKinds
                /\ Len(handler_calls) = Len(hs)
                /\ \A i \in 1..Len(hs) :
                      handler_calls[i] = [list |-> ListOf(e.kind), handler |-> hs[i],
                                          id |-> e.id])
    /\ [](cpc # "release" => handler_calls = <<>>)
    /\ [][/\ (cpc = "pop" /\ cpc' # "pop") =>
                IF ble_events_ = <<>>
                THEN cpc' = "dropped" /\ ble_event' = NoSlot
                ELSE cpc' = "dispatch" /\ ble_event' = Head(ble_events_)
                       /\ ble_events_' = Tail(ble_events_)
          /\ (cpc # "dropped" /\ cpc' = "dropped") => cpc = "pop" /\ ble_events_ = <<>>
          /\ Len(free_list') > Len(free_list) =>
                /\ cpc = "release" /\ cpc' = "pop"
                /\ free_list' = Append(free_list, ble_event)
                /\ ble_event' = NoSlot
          /\ Len(ble_events_') < Len(ble_events_) => cpc = "pop" /\ ble_event = NoSlot
          /\ (cpc = "release" /\ cpc' # "release") => Len(free_list') > Len(free_list)]_vars

C11_Witness ==
    /\ cpc = "release"
    /\ event_[ble_event].kind = "GAP_SECURITY"
    /\ Len(handler_calls) = 3
    /\ Len(relLog) = 1
    /\ ble_events_ # <<>>

\* C12 as stated: every completed push, of whatever kind, is followed by the
\* handler's notification write, and a dropped attempt is followed by none.
C12_NotifyAfterPush ==
    [][\A p \in Producers :
          /\ (ppc[p] = "push" /\ ppc'[p] # "push") => ppc'[p] = "notify"
          /\ (ppc[p] = "drop" /\ ppc'[p] # "drop") => ppc'[p] = "idle"]_vars

\* C12, amended: the GATT server and client handlers call notify_main_loop_ once
\* after every enqueue attempt, whether the event was pushed or dropped, and
\* gap_event_handler never does; the call writes exactly one byte when the
\* notification socket is open and nothing otherwise; bytes are written by
\* nothing else.
C12_NotifyAfterGatt ==
    /\ [](\A p \in Producers : ppc[p] = "notify" => parg[p].kind \in GattKinds)
    /\ [][/\ \A p \in Producers :
                /\ (ppc[p] \in {"push", "drop"} /\ ppc'[p] # ppc[p]) =>
                      ppc'[p] = IF parg[p].kind \in GattKinds THEN "notify" ELSE "idle"
                /\ (ppc[p] = "notify" /\ ppc'[p] # "notify") =>
                      /\ ppc'[p] = "idle"
                      /\ notify_bytes' = notify_bytes + (IF notify_fd_ THEN 1 ELSE 0)
          /\ notify_bytes' > notify_bytes =>
                /\ notify_bytes' = notify_bytes + 1
                /\ notify_fd_
                /\ \E p \in Producers : ppc[p] = "notify" /\ ppc'[p] = "idle"]_vars

\* a GATT attempt that was dropped is about to notify on the open socket, while
\* the queue holds a GAP event whose push wrote no byte
C12_Witness ==
    /\ \E p \in Producers :
          ppc[p] = "notify" /\ parg[p].id \notin Range(pushLog) /\ parg[p].kind = "GATTS"
    /\ notify_fd_
    /\ notify_bytes = 0
    /\ stale_bytes = 0
    /\ ~read_fds_
    /\ \E i \in 1..Len(ble_events_) : event_[ble_events_[i]].kind = "GAP_SCAN_RESULT"

\* C13 as stated: the loop() call has drained every pending notification byte
\* when it starts popping.
C13_DrainsAll ==
    [][(cpc = "idle" /\ cpc' = "pop") => notify_bytes' = 0]_vars

\* C13, amended: when the last select() reported the open notification socket
\* readable, the loop() call drains every pending byte before it starts popping;
\* otherwise it reads nothing, and bytes written since that select() stay pending
\* until the next select() has reported them. Whenever the next wait can begin, no
\* pending byte has been reported by an earlier wait: a notification causes at
\* most one early wake-up.
C13_DrainWhenReady ==
    /\ []((ble_called /\ cpc = "idle") => stale_bytes = 0)
    /\ [](stale_bytes <= notify_bytes)
    /\ [][(cpc = "idle" /\ cpc' = "pop") =>
             notify_bytes' = IF notify_fd_ /\ read_fds_ THEN 0 ELSE notify_bytes]_vars

\* the wait reported the socket readable, the loop() call drained it, and a byte
\* written during the pop loop is pending for the next wait
C13_Witness ==
    /\ cpc = "dispatch"
    /\ notify_fd_
    /\ read_fds_
    /\ notify_bytes = 1
    /\ stale_bytes = 0
    /\ relLog # <<>>

\* ids dispatched after the first n dispatches
DispatchedAfter(n) == {dispLog[i] : i \in (n + 1)..Len(dispLog)}

\* C14 as stated: a select() during which a notification was written returns
\* before its timeout has elapsed, and when the BLE component has been called in
\* the iteration that follows, the pushed event the notification was written for
\* has been popped and dispatched in that call.
C14_WakePopsNext ==
    /\ [][(select_pc = "waiting" /\ select_pc' = "none" /\ woke # {}) =>
             waited' < delay_time]_vars
    /\ []((ble_called /\ cpc = "idle" /\ select_pc = "none") =>
            \A w \in woke : w.id \in Range(pushLog) => w.id \in DispatchedAfter(w.disp))

\* C14, amended: a select() during which a notification was written returns
\* with the socket reported readable before its timeout has elapsed, no time
\* passing in the wait after the write; when the loop() call of the iteration
\* that follows runs its pop loop (the component is still ACTIVE), the pushed
\* event the notification was written for has been popped by the end of that
\* call, in it or in an earlier one.
C14_WakeBeforeTimeout ==
    /\ [](select_pc = "waiting" => waited < delay_time)
    /\ [][/\ (select_pc = "waiting" /\ select_pc' = "none" /\ woke # {}) =>
                waited' < delay_time /\ read_fds_'
          /\ waited' > waited => woke = {}
          /\ (cpc = "dropped" /\ cpc' = "idle") =>
                \A w \in woke : w.id \in Range(pushLog) => w.id \in Range(dispLog)]_vars

\* a notification written one millisecond into a wait of three ended it before
\* the timeout, and the loop() call that followed popped its event
C14_Witness ==
    /\ ble_called
    /\ cpc = "idle"
    /\ select_pc = "none"
    /\ waited = 1
    /\ delay_time = 3
    /\ \E w \in woke : w.id \in DispatchedAfter(w.disp)

\* ---------------------------------------------------------------- Application::setup, order
\* the components of a call log, each at the place of its first call
RECURSIVE FirstCalls(_)
FirstCalls(log) ==
    IF log = <<>>
    THEN <<>>
    ELSE LET first == FirstCalls(SubSeq(log, 1, Len(log) - 1))
         IN  IF log[Len(log)] \in Range(first)
             THEN first
             ELSE Append(first, log[Len(log)])

\* the place of c in a sequence without duplicates that holds it
Place(seq, c) == CHOOSE k \in 1..Len(seq) : seq[k] = c

Before(seq, a, b) == a \in Range(seq) /\ (b \in Range(seq) => Place(seq, a) < Place(seq, b))

\* C15: of two components registered with equal setup priority, the one
\* registered first has its setup invoked first by Application::setup, whatever
\* the order of registration; when Application::setup ends every registered
\* component has been invoked.
C15_RegistrationOrder ==
    /\ \A a, b \in Range(reg_log) :
           (/\ SetupPriority(a) = SetupPriority(b)
            /\ Place(reg_log, a) < Place(reg_log, b)
            /\ b \in Range(call_log))
               => Before(FirstCalls(call_log), a, b)
    /\ app_pc = "setup_done" => Range(call_log) = Range(reg_log)

\* Application::setup has ended for three components of one setup priority,
\* registered in the order C, A, B and with loop priorities that order them
\* differently, after at least one bring-up retry; they were set up as C, A, B
C15_Witness ==
    /\ app_pc = "setup_done"
    /\ reg_log = <<"C", "A", "B">>
    /\ \A c \in Components : SetupPriority(c) = SetupPriority("A")
    /\ LoopPriority("A") > LoopPriority("C")
    /\ Len(call_log) > Len(reg_log)
    /\ components_ # reg_log
    /\ FirstCalls(call_log) = reg_log

\* C16: during Application::setup the components are invoked for the first
\* time in non-increasing order of setup priority, bring-up retries (and their
\* re-sort of the started components by loop priority) included, and when
\* Application::setup ends every registered component has been invoked.
C16_FirstCallOrder ==
    LET first == FirstCalls(call_log)
    IN  /\ \A k \in 1..(Len(first) - 1) :
               SetupPriority(first[k]) >= SetupPriority(first[k + 1])
        /\ app_pc = "setup_done" => Len(first) = Len(reg_log)

\* Application::setup has ended for three components, the first registered of
\* lower setup priority than the last registered; a bring-up retry of the second one re-sorted the
\* two started components against their setup priorities before the third,
\* of the lowest setup priority, was invoked
C16_Witness ==
    /\ app_pc = "setup_done"
    /\ Len(reg_log) = 3
    /\ SetupPriority(reg_log[1]) < SetupPriority(reg_log[3])
    /\ SetupPriority(components_[1]) < SetupPriority(components_[2])
    /\ SetupPriority(components_[3]) <= SetupPriority(components_[1])
    /\ Len(call_log) > 3
    /\ call_log[Len(call_log)] = components_[3]
    /\ Count(call_log, components_[3]) = 1

\* ---------------------------------------------------------------- Application::setup, retry
\* the do loop is left for the next component
RetryAdvances == app_pc = "retry_call" /\ app_pc' = "setup_call"

\* a call made by the inner for loop is a call of one of the first i components
RetryCallsStarted ==
    (app_pc = "retry_call" /\ call_log' # call_log)
        => /\ call_log' = Append(call_log, call_log'[Len(call_log')])
           /\ \E k \in 1..i_ : components_[k] = call_log'[Len(call_log')]
           /\ call_log'[Len(call_log')] \in Range(call_log)

\* C17 as stated: when can_proceed() of the blocking component turns true
\* after exactly K retry cycles, Application::setup has by then called the
\* Scheduler exactly K times and fed the watchdog exactly K times in the retry,
\* and has called no component behind the blocking one.
C17_ExactlyK ==
    /\ [][RetryAdvances => (sched_calls = retry_K /\ wdt_calls = retry_K)]_vars
    /\ [][RetryCallsStarted]_vars

\* C17, amended: as above, but feed_wdt() is called once after scheduler.call()
\* and once after the call of each of the i + 1 components up to the blocking
\* one (index i, from 0), K * (i + 2) times in all; here i_ = i + 1.
C17_RetryCounts ==
    /\ [][RetryAdvances =>
              /\ retry_K >= 1
              /\ retry_left = 1
              /\ sched_calls = retry_K
              /\ wdt_calls = retry_K * (i_ + 1)]_vars
    /\ [][RetryCallsStarted]_vars
    /\ [](app_pc \in {"retry_begin", "retry_call"} =>
              /\ retry_left >= 1
              /\ sched_calls <= retry_K
              /\ \E k \in 1..i_ : components_[k] = component)

\* the second of three components blocked for two retry cycles and
\* Application::setup has just advanced to the third: the Scheduler was called
\* twice, feed_wdt() six times, the components five times in all
C17_Witness ==
    /\ app_pc = "setup_call"
    /\ Len(components_) = 3
    /\ i_ = 3
    /\ retry_K = 2
    /\ sched_calls = 2
    /\ wdt_calls = 6
    /\ Len(call_log) >= 6

\* ---------------------------------------------------------------- Application::loop, sleep
\* the main task is inside delay() or select()
Sleeping == app_pc \in {"loop_delay", "loop_select"}

\* C18: when the loop sleeps, the sleep is min(delay, max(next_due, delay / 2)),
\* delay being loop_interval_ - elapsed and next_due being delay when the
\* Scheduler has no pending callback, the division that of unsigned integers:
\* with an interval of 16 ms and 5 ms elapsed it is 11 ms without a pending
\* callback and 5 ms with a callback due in 2 ms; it is never more than delay
\* and never less than the integer half of delay.
C18_SleepTime ==
    Sleeping =>
        LET delay == loop_interval_ - elapsed
            next_due == IF next_schedule_in = NoSchedule THEN delay ELSE next_schedule_in
            half == delay \div 2
        IN  /\ delay >= 1
            /\ delay_time = Min(delay, Max(next_due, half))
            /\ delay_time <= delay
            /\ delay_time >= half
            /\ 2 * delay_time + 1 >= delay
            /\ (loop_interval_ = 16 /\ elapsed = 5 /\ next_schedule_in = NoSchedule)
                   => delay_time = 11
            /\ (loop_interval_ = 16 /\ elapsed = 5 /\ next_schedule_in = 2)
                   => delay_time = 5

\* the loop is inside select() for 5 ms: the interval is 16 ms, 5 ms have
\* elapsed and a callback is due in 2 ms
C18_Witness ==
    /\ app_pc = "loop_select"
    /\ loop_interval_ = 16
    /\ elapsed = 5
    /\ next_schedule_in = 2
    /\ delay_time = 5

\* ---------------------------------------------------------------- Application::loop, yield
\* the kinds of wait a loop() call has logged
Waits(log) == {log[k] : k \in 1..Len(log)} \cap {"yield", "delay", "select"}

\* C19: when the high-frequency override is active or the elapsed time has
\* reached loop_interval_, and only then, the iteration neither sleeps nor
\* waits on the sockets: once its components have run it yields, and the call
\* ends with that.
C19_YieldOnly ==
    /\ [](app_pc \in {"loop_yield", "loop_delay", "loop_select"} =>
              /\ elapsed = Elapsed(last_op_end_time, last_loop_)
              /\ (high_frequency \/ elapsed >= loop_interval_) <=> app_pc = "loop_yield")
    /\ [](app_pc = "loop_yield" =>
              /\ loop_log[Len(loop_log)] = "yield"
              /\ Waits(loop_log) = {"yield"}
              /\ Count(loop_log, "yield") = 1
              /\ delay_time = 0)
    /\ [](app_pc = "loop_done" =>
              /\ Waits(loop_log) # {}
              /\ "yield" \in Waits(loop_log) => Waits(loop_log) = {"yield"})
    /\ [][app_pc = "loop_yield" =>
              /\ app_pc' = "loop_done"
              /\ Waits(loop_log') = {"yield"}
              /\ last_op_end_time' = last_op_end_time]_vars

\* a high-frequency request is active, 1 ms of a 16 ms interval has elapsed and
\* the loop, its three components called, is inside yield()
C19_Witness ==
    /\ app_pc = "loop_yield"
    /\ high_frequency
    /\ loop_interval_ = 16
    /\ elapsed = 1
    /\ Len(looping_components_) = 3
    /\ Waits(loop_log) = {"yield"}

\* ---------------------------------------------------------------- Application::loop, order
\* the component calls of a loop() call, in order
ComponentCalls(log) == SelectSeq(log, LAMBDA x : x \in Components)

\* C20: in every iteration of Application::loop the Scheduler is run first,
\* before any component, and once only; the looping components follow, each
\* once, in the order of looping_components_.
C20_SchedulerFirst ==
    /\ app_pc \in {"loop_component", "loop_yield", "loop_delay", "loop_select", "loop_done"}
           => loop_log # <<>>
    /\ loop_log # <<>> =>
           /\ loop_log[1] = "scheduler"
           /\ Count(loop_log, "scheduler") = 1
    /\ app_pc = "loop_component" =>
           ComponentCalls(loop_log) = SubSeq(looping_components_, 1, looping_at - 1)
    /\ app_pc \in {"loop_yield", "loop_delay", "loop_select", "loop_done"} =>
           ComponentCalls(loop_log) = looping_components_

\* an iteration that called three components, the last of them returning
\* after the first millisecond, has ended
C20_Witness ==
    /\ app_pc = "loop_done"
    /\ last_loop_ > 1
    /\ Len(loop_log) >= 8
    /\ SubSeq(loop_log, 1, 8) =
           <<"scheduler", "feed_wdt", "A", "feed_wdt", "B", "feed_wdt", "C", "feed_wdt">>

\* ---------------------------------------------------------------- looping_components_
\* seq is in non-increasing order of key
Descending(seq, key) ==
    \A k \in 1..(Len(seq) - 1) : key[seq[k]] >= key[seq[k + 1]]

\* C21 as stated: when Application::setup has ended, looping_components_ holds
\* components of components_ only, each at most once, and is in priority order
\* (by setup priority or by loop priority), bring-up retries included.
C21_PriorityOrder ==
    app_pc = "setup_done" =>
        /\ Range(looping_components_) \subseteq Range(components_)
        /\ NoDuplicates(looping_components_)
        /\ \/ Descending(looping_components_, [c \in Components |-> SetupPriority(c)])
           \/ Descending(looping_components_, [c \in Components |-> LoopPriority(c)])

\* ---------------------------------------------------------------- failed components
\* the for loop of Application::loop is over
CallsOver == app_pc \in {"loop_yield", "loop_delay", "loop_select", "loop_done"}

\* C22: a component marked failed, by its setup() or by one of its loop()
\* calls, stays failed and its loop() is not run in any later iteration, while
\* the loop() of every looping component that is not failed is run in every
\* iteration, in the order of looping_components_: with A(10), B(5), C(5)
\* registered and set up in that order and B failed, an iteration runs A and
\* C (and B only if it is the iteration in which B fails).
C22_FailedExcluded ==
    /\ [][failed \subseteq failed']_vars
    /\ [][(loop_ran' # loop_ran /\ loop_ran' # <<>>) =>
              /\ loop_ran' = Append(loop_ran, looping_components_[looping_at])
              /\ looping_components_[looping_at] \notin failed]_vars
    /\ [](CallsOver =>
              /\ Range(looping_components_) \ failed \subseteq Range(loop_ran)
              /\ loop_ran = SelectSeq(looping_components_, LAMBDA c : c \in Range(loop_ran)))
    /\ [](call_log = <<"A", "B", "C">>)
    /\ []((CallsOver /\ looping_components_ = <<"A", "B", "C">> /\ failed = {"B"}) =>
              loop_ran \in {<<"A", "C">>, <<"A", "B", "C">>})

\* B, which did not fail in setup(), is failed, and an iteration over A, B, C
\* that ran the loop() of A and C only has ended
C22_Witness ==
    /\ app_pc = "loop_done"
    /\ looping_components_ = <<"A", "B", "C">>
    /\ failed = {"B"}
    /\ loop_ran = <<"A", "C">>
    /\ ComponentCalls(loop_log) = <<"A", "B", "C">>

\* ---------------------------------------------------------------- bounded wait
\* C23: the wait of the main loop is bounded: the time passed to delay() or to
\* select() is at most loop_interval_ - elapsed, hence at most loop_interval_,
\* and the loop stays in the call for no longer than that time.
C23_WaitBounded ==
    /\ [](Sleeping =>
              /\ elapsed = Elapsed(last_op_end_time, last_loop_)
              /\ elapsed >= 0
              /\ delay_time >= 0
              /\ delay_time <= loop_interval_ - elapsed
              /\ delay_time <= loop_interval_)
    /\ [][Sleeping => (millis_' - millis_) % ClockModulus <= delay_time]_vars

\* the loop is inside delay() for a whole interval of 16 ms: nothing has elapsed
\* and no callback is pending
C23_Witness ==
    /\ app_pc = "loop_delay"
    /\ loop_interval_ = 16
    /\ elapsed = 0
    /\ delay_time = 16

\* the last entry of a log
Last(log) == log[Len(log)]

\* C24: Leaving the component calls for a sleep, the loop enters select() exactly
\* when a socket is registered and delay() otherwise.  A select() interrupted by
\* EINTR ends the iteration with no delay(); a select() that fails otherwise is
\* followed by delay() of the computed delay_time, which takes exactly that time;
\* in both cases the function then returns, and loop() can be called again.
C24_SelectFallback ==
    /\ [][(app_pc = "loop_component" /\ app_pc' \in {"loop_select", "loop_delay"}) =>
              (app_pc' = "loop_select" <=> socket_fds_ # <<>>)]_vars
    /\ [][app_pc = "loop_select" =>
              \/ /\ app_pc' = "loop_delay"
                 /\ delay_time' = delay_time
                 /\ loop_log' = loop_log \o <<"select_failed", "delay">>
              \/ /\ app_pc' = "loop_done"
                 /\ "delay" \notin Range(loop_log')]_vars
    /\ [][app_pc = "loop_delay" =>
              /\ app_pc' = "loop_done"
              /\ millis_' = After(delay_time)]_vars
    /\ [](app_pc = "loop_done" /\ "EINTR" \in Range(loop_log) =>
              Waits(loop_log) = {"select"})
    /\ [](app_pc = "loop_done" /\ "select_failed" \in Range(loop_log) =>
              Waits(loop_log) = {"select", "delay"})
    /\ [](app_pc = "loop_done" => ENABLED LoopBegin)

\* C24 witness: an iteration has ended whose select() failed and whose delay()
\* followed, in an iteration after one whose select() was interrupted.
C24_Witness ==
    /\ app_pc = "loop_done"
    /\ socket_fds_ # <<>>
    /\ "select_failed" \in Range(loop_log)
    /\ Waits(loop_log) = {"select", "delay"}
    /\ Len(dump_log) = 2

\* the first n entries of a sequence
Prefix(seq, n) == SubSeq(seq, 1, n)

\* C25: After setup the dump cursor never exceeds the number of components, and
\* dump_config has been called for exactly the components before the cursor,
\* once each and in the order of components_, whether they loop or not.  Each
\* iteration of the loop ends with the dump_config of the component at the
\* cursor while one remains, and with none afterwards; nothing else of the loop
\* dumps, and the component list is not changed.
C25_DumpConfig ==
    /\ [](/\ dump_config_at_ \in 0..Len(components_)
          /\ dump_log = Prefix(components_, dump_config_at_))
    /\ [][components_' = components_]_vars
    /\ [][IF app_pc' = "loop_done"
          THEN IF dump_config_at_ < Len(components_)
               THEN /\ dump_config_at_' = dump_config_at_ + 1
                    /\ dump_log' = Append(dump_log, components_[dump_config_at_ + 1])
                    /\ Last(loop_log') = "dump_config"
               ELSE /\ dump_config_at_' = dump_config_at_
                    /\ dump_log' = dump_log
                    /\ "dump_config" \notin Range(loop_log')
          ELSE /\ dump_config_at_' = dump_config_at_
               /\ dump_log' = dump_log
               /\ "dump_config" \notin Range(loop_log')]_vars

\* C25 witness: an iteration without a dump has ended, the three components
\* dumped by the three iterations before it, one of them not looping.
C25_Witness ==
    /\ app_pc = "loop_done"
    /\ dump_config_at_ = Len(components_)
    /\ dump_log = <<"A", "B", "C">>
    /\ "dump_config" \notin Range(loop_log)
    /\ Len(looping_components_) = 2

\* ---------------------------------------------------------------- shutdown hooks
Reverse(seq) == [k \in 1..Len(seq) |-> seq[Len(seq) + 1 - k]]

\* the components whose hook was called, in the order of the calls
HookCalls(hook) ==
    LET calls == SelectSeq(shutdown_log, LAMBDA e : e.hook = hook)
    IN  [k \in 1..Len(calls) |-> calls[k].comp]

\* the reboot was a safe reboot
SafePassRan == HookCalls("on_safe_shutdown") # <<>>

\* C26 as stated: after a reboot or a safe reboot the hooks of each pass were
\* called in the reverse of the order in which the components were registered,
\* each once, before the restart.
C26_ReverseRegistration ==
    app_pc = "restarted" =>
        /\ HookCalls("on_shutdown") = Reverse(reg_log)
        /\ SafePassRan => HookCalls("on_safe_shutdown") = Reverse(reg_log)
        /\ Last(shutdown_log) = NoHook
        /\ HookCalls("arch_restart") = <<NoComponent>>

\* C26, amended: after a reboot or a safe reboot the hooks of each pass were
\* called in the reverse of the order the component list had at that time,
\* which is the registration order only until setup() has sorted the list;
\* every registered component's hook was called exactly once per pass; a safe
\* reboot ran the on_safe_shutdown pass over all components and then the
\* on_shutdown pass; the restart was requested once, after all hooks, and no
\* hook is called without a reboot.
C26_ReverseList ==
    /\ app_pc # "restarted" => shutdown_log = <<>>
    /\ app_pc = "restarted" =>
        /\ HookCalls("on_shutdown") = Reverse(components_)
        /\ Range(components_) = Range(reg_log)
        /\ Len(components_) = Cardinality(Range(reg_log))
        /\ components_ = reg_log => HookCalls("on_shutdown") = Reverse(reg_log)
        /\ Last(shutdown_log) = NoHook
        /\ HookCalls("arch_restart") = <<NoComponent>>
        /\ IF SafePassRan
           THEN /\ HookCalls("on_safe_shutdown") = Reverse(components_)
                /\ \A k \in 1..Len(components_) :
                       /\ shutdown_log[k].hook = "on_safe_shutdown"
                       /\ shutdown_log[Len(components_) + k].hook = "on_shutdown"
                /\ Len(shutdown_log) = 2 * Len(components_) + 1
           ELSE Len(shutdown_log) = Len(components_) + 1

\* C26 witness: a safe reboot after setup() of three components, whose sort
\* had changed their order.
C26_Witness ==
    /\ app_pc = "restarted"
    /\ SafePassRan
    /\ reg_log = <<"A", "B", "C">>
    /\ components_ = <<"C", "A", "B">>
    /\ i_ = 4
    /\ HookCalls("on_shutdown") = <<"B", "A", "C">>

\* ---------------------------------------------------------------- is_socket_ready
\* the iteration that has ended ran select(), and select() returned without error
SelectCompleted ==
    /\ app_pc = "loop_done"
    /\ "select" \in Range(loop_log)
    /\ "EINTR" \notin Range(loop_log)
    /\ "select_failed" \notin Range(loop_log)

\* the iteration that has ended ran no select()
NoSelect == app_pc = "loop_done" /\ "select" \notin Range(loop_log)

\* C27 as stated: is_socket_ready is false for a negative or out-of-range fd;
\* after an iteration whose select() completed it is true exactly for the
\* registered descriptors that select() found readable; after an iteration
\* that ran no select() it is true for no descriptor.
C27_NoStaleReady ==
    /\ \A fd \in Fds : (fd < 0 \/ fd >= FdSetSize) => ~IsSocketReady(fd)
    /\ SelectCompleted =>
           \A fd \in Fds :
               IsSocketReady(fd) <=> fd \in reported \cap Range(socket_fds_)
    /\ NoSelect => \A fd \in Fds : ~IsSocketReady(fd)

\* C27, amended: is_socket_ready is false for a negative or out-of-range fd;
\* after an iteration whose select() completed, and during the component
\* calls of the next iteration, it is true exactly for the registered
\* descriptors that select() found readable; an iteration that runs no
\* select() leaves its answers as they were, so that a descriptor found
\* readable by an earlier select() is still reported ready.
C27_ReadyAfterSelect ==
    /\ [](\A fd \in Fds : (fd < 0 \/ fd >= FdSetSize) => ~IsSocketReady(fd))
    /\ [](SelectCompleted =>
              \A fd \in Fds :
                  IsSocketReady(fd) <=> fd \in reported \cap Range(socket_fds_))
    /\ [][app_pc' = "loop_component" =>
              \A fd \in Fds : IsSocketReady(fd)' = IsSocketReady(fd)]_vars
    /\ [][NoSelect' => \A fd \in Fds : IsSocketReady(fd)' = IsSocketReady(fd)]_vars

\* C27 witness: select() has found the registered descriptor readable, and
\* the loop is at the component calls of the next iteration.
C27_Witness ==
    /\ app_pc = "loop_component"
    /\ looping_at = 2
    /\ socket_fds_ = <<0>>
    /\ reported = {0}
    /\ IsSocketReady(0)
    /\ ~IsSocketReady(1)

\* ---------------------------------------------------------------- Application::setup, steps
\* the step is a component's call by the for loop of Application::setup
ForLoopCall == app_pc = "setup_call" /\ call_log' # call_log

\* C28: Each pass of the for loop of Application::setup calls the component at
\* i, then the scheduler's process_to_add, then feed_wdt, and only then tests
\* can_proceed; it goes on to the next component exactly when the test
\* succeeds, and sorts for the retry otherwise.  A component's first call is
\* always such a pass, so no component is first called before the steps of
\* the one before it are complete.
C28_SetupSteps ==
    /\ [][ForLoopCall =>
              /\ component' = components_[i_]
              /\ call_log' = Append(call_log, component')
              /\ SubSeq(setup_log', 1, 4) =
                     <<component', "process_to_add", "feed_wdt", "can_proceed">>
              /\ IF app_pc' = "setup_call"
                 THEN setup_log' = SubSeq(setup_log', 1, 4) /\ i_' = i_ + 1
                 ELSE /\ setup_log' = SubSeq(setup_log', 1, 4) \o <<"stable_sort">>
                      /\ app_pc' = "retry_begin"
                      /\ i_' = i_]_vars
    /\ [][(call_log' # call_log /\ Last(call_log') \notin Range(call_log)) =>
              ForLoopCall]_vars
    /\ [](app_pc = "setup_call" /\ i_ > 1 =>
              /\ component \in Range(call_log)
              /\ setup_log[Len(setup_log)] = "can_proceed")

\* C28 witness: the second of three components has been called and can
\* proceed, the third has not been called.
C28_Witness ==
    /\ app_pc = "setup_call"
    /\ Len(components_) = 3
    /\ i_ = 3
    /\ call_log = SubSeq(components_, 1, 2)
    /\ setup_log = <<components_[2], "process_to_add", "feed_wdt", "can_proceed">>

\* ---------------------------------------------------------------- Application::setup, retry cycle
\* the calls of the inner for loop over positions 1..n: each component, then feed_wdt
CycleCalls(n) ==
    [k \in 1..(2 * n) |-> IF k % 2 = 1 THEN components_[(k + 1) \div 2] ELSE "feed_wdt"]

\* the step ends a cycle of the do loop
CycleEnds == app_pc = "retry_call" /\ app_pc' # "retry_call"

\* C29: A cycle of the do loop of Application::setup runs the scheduler, feeds
\* the watchdog, and calls each component at positions 0..i once, in their
\* order, which is descending in loop priority; it yields and never sleeps.
\* After the cycle the loop is left exactly when the component that blocked,
\* which the sort may have moved away from position i, can proceed, and
\* another cycle starts otherwise; the do loop is left only at the end of a
\* cycle, so at least one cycle has run.
C29_RetryCycle ==
    /\ [][CycleEnds =>
              /\ setup_log' = <<"scheduler", "feed_wdt">> \o CycleCalls(i_)
                                  \o <<"yield", "can_proceed">>
              /\ Descending(SubSeq(components_, 1, i_),
                            [c \in Components |-> LoopPriority(c)])
              /\ component \in Range(SubSeq(components_, 1, i_))
              /\ retry_left' = retry_left - 1
              /\ IF retry_left' = 0
                 THEN app_pc' = "setup_call" /\ i_' = i_ + 1
                 ELSE app_pc' = "retry_begin" /\ i_' = i_
              /\ sched_calls >= 1]_vars
    /\ [][(app_pc \in {"retry_begin", "retry_call"} /\ app_pc' = "setup_call") =>
              CycleEnds]_vars
    /\ [](app_pc \in {"retry_begin", "retry_call"} =>
              /\ retry_left >= 1
              /\ Range(setup_log) \cap {"delay", "select"} = {})
    /\ [][(app_pc \in {"retry_begin", "retry_call"}) =>
              (components_' = components_ /\ component' = component)]_vars

\* C29 witness: the second cycle for a blocking component has ended and the
\* for loop goes on; the sort had moved the component from position i.
C29_Witness ==
    /\ app_pc = "setup_call"
    /\ retry_K = 2
    /\ sched_calls = 2
    /\ i_ = 4
    /\ component # components_[3]
    /\ setup_log = <<"scheduler", "feed_wdt">> \o CycleCalls(3) \o <<"yield", "can_proceed">>

\* ---------------------------------------------------------------- Application::loop, spacing
\* the step is the decision between yield() and a sleep
Decides == app_pc = "loop_component" /\ app_pc' # "loop_component"

\* C30 as stated: an iteration whose scheduler and component calls have taken
\* less than loop_interval_, with no high-frequency request, goes on to sleep
\* and does not yield, so that sleeping and non-sleeping iterations do not
\* alternate and the next iteration starts loop_interval_ after this one.
C30_NoAlternation ==
    [][(Decides /\ work < loop_interval_ /\ ~high_frequency') =>
          app_pc' \in {"loop_delay", "loop_select"}]_vars

\* ---------------------------------------------------------------- Application::loop, feed_wdt
\* C31: In every iteration of Application::loop feed_wdt is called once before
\* the first component call, directly after the scheduler, and once directly
\* after each component call, and nowhere else: the calls of feed_wdt are
\* one more than the component calls, and no two component calls are
\* without a call of feed_wdt between them.
C31_FeedBetweenCalls ==
    /\ Len(loop_log) >= 2 => loop_log[2] = "feed_wdt"
    /\ Len(loop_log) # 1
    /\ \A k \in 1..Len(loop_log) :
           /\ loop_log[k] \in Components =>
                  /\ k > 1 /\ loop_log[k - 1] = "feed_wdt"
                  /\ k < Len(loop_log) /\ loop_log[k + 1] = "feed_wdt"
           /\ loop_log[k] = "feed_wdt" =>
                  loop_log[k - 1] \in Components \cup {"scheduler"}
    /\ loop_log # <<>> =>
           Count(loop_log, "feed_wdt") = 1 + Len(ComponentCalls(loop_log))
    /\ CallsOver => Count(loop_log, "feed_wdt") = 1 + Len(looping_components_)

\* C31 witness: the second of three component calls of an iteration has
\* returned and the watchdog has been fed after it, three times in all.
C31_Witness ==
    /\ app_pc = "loop_component"
    /\ looping_at = 3
    /\ Len(looping_components_) = 3
    /\ loop_log = <<"scheduler", "feed_wdt", looping_components_[1], "feed_wdt",
                    looping_components_[2], "feed_wdt">>

\* ---------------------------------------------------------------- status word
\* the bitwise OR of the flag sets of a log
UnionAll(log) == UNION Range(log)

\* a cycle of the do loop of Application::setup is running
InRetryCycle == app_pc = "retry_call"

\* C32 as stated: once the component calls of an iteration of Application::loop
\* are over, app_state_ is the OR of the flags the looping components reported
\* in that iteration; during the calls it contains the flags reported so far;
\* during a cycle of the do loop of Application::setup it contains the warning
\* flag.
C32_StatusWord ==
    /\ app_pc \in {"loop_yield", "loop_done"} => app_state_ = UnionAll(status_log)
    /\ app_pc = "loop_component" => UnionAll(status_log) \subseteq app_state_
    /\ InRetryCycle => "STATUS_LED_WARNING" \in app_state_

\* C32, amended: as stated for Application::loop.  In a cycle of the do loop
\* of Application::setup app_state_ contains the warning flag from the first
\* component call of the cycle on, and from the end of the first cycle on it
\* contains it until the do loop is left; the scheduler call, the feed_wdt
\* and the first component call of the first cycle run with app_state_ as
\* it was before.  A cycle ends with app_state_ being the warning flag and
\* the flags reported in the cycle.
C32_StatusWordAfterCall ==
    /\ app_pc \in {"loop_yield", "loop_done"} => app_state_ = UnionAll(status_log)
    /\ app_pc = "loop_component" =>
           /\ UnionAll(status_log) \subseteq app_state_
           /\ new_app_state = UnionAll(status_log)
           /\ Len(status_log) = looping_at - 1
    /\ (InRetryCycle /\ (j_ > 1 \/ sched_calls > 1)) =>
           /\ "STATUS_LED_WARNING" \in app_state_
           /\ UnionAll(status_log) \subseteq app_state_
    /\ (app_pc = "retry_begin" /\ sched_calls >= 1) =>
           app_state_ = {"STATUS_LED_WARNING"} \cup UnionAll(status_log)
    /\ (app_pc = "setup_call" /\ i_ > 1 /\ retry_K >= 1) =>
           app_state_ = {"STATUS_LED_WARNING"} \cup UnionAll(status_log)

\* C32 witness: the second component blocked in setup, which left the warning
\* flag in app_state_; the first iteration of the loop has ended, its
\* components reported the error flag only, and the warning flag is gone.
C32_Witness ==
    /\ app_pc = "loop_done"
    /\ retry_K >= 1
    /\ Len(looping_components_) = 2
    /\ dump_config_at_ = 1
    /\ status_log = <<{"STATUS_LED_ERROR"}, {}>>
    /\ app_state_ = {"STATUS_LED_ERROR"}

\* ---------------------------------------------------------------- GAP filter and dispatch
\* the kinds enqueue_ble_event is called with
Enqueued == GapQueued \cup GattKinds

\* C33: Every GAP sub-kind gap_event_handler enqueues has a case of its own in
\* the switch of ESP32BLE::loop, and, when it goes to gap_event_handlers_, a
\* case in the inner switch that sets param; no event in a slot, in the queue
\* or in dispatch is of another GAP sub-kind.  A handler is past its switch
\* only for an enqueued kind, so only such an event takes a slot or counts
\* as dropped.
C33_FilterAgrees ==
    /\ [](\A kind \in GapQueued :
              /\ GapBranch(kind) \in {"scan_result", "complete"}
              /\ GapBranch(kind) = "complete" => GapParam(kind) # "unset")
    /\ [](\A s \in Slots : event_[s].kind \in Enqueued \cup {"NONE"})
    /\ [](\A p \in Producers : ppc[p] # "idle" => parg[p].kind \in Enqueued)
    /\ [](cpc \in {"dispatch", "release"} =>
              /\ event_[ble_event].kind \in Enqueued
              /\ GapBranch(event_[ble_event].kind) # "unhandled")
    /\ [][(dropped_count_' # dropped_count_ /\ dropped_count_' # 0) =>
              \E p \in Producers :
                  /\ ppc[p] = "drop"
                  /\ parg[p].kind \in Enqueued]_vars
    /\ [][Len(free_list') < Len(free_list) =>
              \E p \in Producers :
                  /\ ppc[p] = "idle"
                  /\ ppc'[p] = "load"
                  /\ parg'[p].kind \in Enqueued]_vars

\* C33 witness: a security event is in dispatch while the pool is empty and
\* the attempt to enqueue another GAP event has been counted as dropped.
C33_Witness ==
    /\ cpc = "release"
    /\ event_[ble_event].kind = "GAP_SECURITY"
    /\ handler_calls # <<>>
    /\ free_list = <<>>
    /\ dropped_count_ = 1

\* ---------------------------------------------------------------- C34
ProducersStopped == AllProducersIdle /\ nextId = DispatchAttempts

BetweenCalls == cpc = "idle" /\ ~ble_called

CallReturned == cpc = "idle" /\ ble_called

Drained == ble_events_ = <<>> /\ Len(free_list) = PoolCap

\* C34: with the main loop iterating and the component ACTIVE, every event that
\* was pushed is eventually dispatched and its slot released; and once the
\* producers have stopped, every loop() call that starts afterwards returns with
\* the queue empty and all PoolCap slots free.
C34_EventuallyReleased ==
    /\ \A id \in 1..DispatchAttempts :
          (id \in Range(pushLog)) ~> (id \in Range(dispLog) /\ id \in Range(relLog))
    /\ []((ProducersStopped /\ BetweenCalls) => [](CallReturned => Drained))

\* Events were pushed while a loop() call was running and after it, the producers
\* stopped, and the next call dispatched and released the rest.
C34_Witness ==
    /\ ProducersStopped
    /\ CallReturned
    /\ Drained
    /\ Len(pushLog) >= 2
    /\ Range(pushLog) = Range(relLog)
    /\ nLogged > 0

\* ---------------------------------------------------------------- C35
\* A step in which Application::loop calls the component (ble_called becomes TRUE)
LoopCalled == cpc = "idle" /\ ~ble_called /\ ble_called'

C36_Transitions ==
    /\ [][(state_' # state_) =>
              \/ component_state_ = "CONSTRUCTION" /\ state_' \in {"DISABLED", "ENABLE"}
              \/ state_ = "DISABLED" /\ state_' = "ENABLE"
              \/ state_ # "DISABLED" /\ state_' = "DISABLE"
              \/ state_ = "ENABLE" /\ state_' \in {"ACTIVE", "OFF"} /\ LoopCalled
              \/ state_ = "DISABLE" /\ state_' = "DISABLED" /\ LoopCalled]_vars
    /\ [][(state_ # "ACTIVE" /\ state_' = "ACTIVE") =>
              state_ = "ENABLE" /\ stack_up' /\ component_state_' = "LOOP"]_vars
    /\ [][(state_ = "ENABLE" /\ state_' = "OFF") => component_state_' = "FAILED"]_vars

\* The stack is up when loop() takes the component from DISABLE to DISABLED.
DismantledAfterSetup == [][(state_ = "DISABLE" /\ state_' = "DISABLED") => stack_up]_vars

\* C36 as stated: the state follows OFF/DISABLED -> ENABLE -> ACTIVE -> DISABLE ->
\* DISABLED, enable() acts only in DISABLED, disable() is a no-op only in
\* DISABLED, ACTIVE is entered only after a successful ble_setup_, a failed one
\* leaves OFF and a failed component, and the stack is dismantled only after it
\* was successfully set up, whenever disable() was called.
C36_StateMachine == C36_Transitions /\ DismantledAfterSetup

\* ---------------------------------------------------------------- C37
\* the last call of the log is a register that returned false or an unregister
\* that did not find its descriptor
Rejected(log) == log # <<>> /\ ~Last(log)[3]

\* C37: after any sequence of register_socket_fd and unregister_socket_fd calls
\* max_fd_ is the largest registered descriptor, -1 when none is registered;
\* register returns false exactly for fd < 0 and fd >= FD_SETSIZE; a rejected
\* register and an unregister of a descriptor that is not registered leave the
\* list, max_fd_ and the changed flag as they were.
C37_MaxFd ==
    /\ [](/\ socket_fds_ = <<>> => max_fd_ = -1
          /\ socket_fds_ # <<>> =>
                /\ max_fd_ \in Range(socket_fds_)
                /\ \A fd \in Range(socket_fds_) : fd <= max_fd_)
    /\ [][(socket_log' # socket_log) =>
             LET call == Last(socket_log')
             IN  /\ (call[1] = "register") =>
                        (call[3] <=> (call[2] >= 0 /\ call[2] < FdSetSize))
                 /\ (call[1] = "unregister") => (call[3] <=> call[2] \in Range(socket_fds_))
                 /\ ~call[3] => UNCHANGED <<socket_fds_, max_fd_, socket_fds_changed_>>]_vars

\* a descriptor is registered twice, the maximum is unregistered, and calls
\* with -1, FD_SETSIZE and an unknown descriptor were made
C37_Witness ==
    /\ \E k \in 1..Len(socket_log) :
          /\ socket_log[k] = <<"unregister", FdSetSize - 1, TRUE>>
          /\ \E j \in 1..(k - 1) : socket_log[j] = <<"register", 0, TRUE>>
    /\ Rejected(socket_log)
    /\ socket_fds_ # <<>>
    /\ max_fd_ = 0

\* ---------------------------------------------------------------- C38
\* C38: every select() of Application::loop is passed exactly the descriptors
\* that are registered when it is called, with max_fd_ as their maximum: the
\* base set is rebuilt before the wait whenever the list has changed since the
\* last rebuild, so no unregistered descriptor is passed and every newly
\* registered one is; with nothing registered the wait is a plain delay.
C38_WaitMonitorsRegistered ==
    /\ [](app_pc = "loop_select" =>
            /\ app_read_fds_ = Range(socket_fds_)
            /\ base_read_fds_ = Range(socket_fds_)
            /\ ~socket_fds_changed_
            /\ \A fd \in app_read_fds_ : fd <= max_fd_)
    /\ []((~socket_fds_changed_ /\ socket_fds_ # <<>>) => base_read_fds_ = Range(socket_fds_))
    /\ [][(app_pc = "loop_component" /\ app_pc' = "loop_delay") => socket_fds_ = <<>>]_vars

\* a select() is entered with a newly registered descriptor and without the
\* descriptor that the previous select() reported readable and that has
\* been unregistered since
C38_Witness ==
    /\ app_pc = "loop_select"
    /\ \E k \in 1..Len(socket_log) : socket_log[k][1] = "unregister" /\ socket_log[k][3]
    /\ \E fd \in reported : fd \notin app_read_fds_
    /\ \E fd \in app_read_fds_ : fd \notin reported

\* ---------------------------------------------------------------- C39
\* C39: feed_wdt takes a non-zero argument as now and reads the clock otherwise;
\* it feeds the hardware watchdog and sets last_feed to now exactly when more
\* than 3 ms have passed since the last feed (since the start, before the first
\* feed), also across the wrap-around of the clock, and otherwise changes
\* nothing; with a call at least every FeedPeriod ms the time since the last
\* feed never exceeds FeedPeriod + 3 ms.
C39_FeedThreshold ==
    /\ [](since_feed <= FeedPeriod + WdtThreshold)
    /\ [](since_feed # NoFeed => since_feed = (millis_ - last_feed) % ClockModulus)
    /\ [][(millis_' = millis_) =>
             LET call == wdt_call'
                 passed == IF since_feed = NoFeed THEN millis_ ELSE since_feed
             IN  /\ call.now = IF call.time # 0 THEN call.time ELSE millis_
                 /\ call.fed <=> passed > WdtThreshold
                 /\ call.fed => last_feed' = call.now /\ since_feed' = 0
                 /\ ~call.fed => UNCHANGED <<last_feed, since_feed>>]_vars

\* FeedPeriod + 3 ms after a feed, in the middle of the clock's wrap-around,
\* after a call that did not feed
C39_Witness ==
    /\ since_feed = FeedPeriod + WdtThreshold
    /\ millis_ < last_feed
    /\ ~wdt_call.fed
    /\ since_call = FeedPeriod

\* ---------------------------------------------------------------- C40
\* the step is the entry into the sleep branch
Sleeps == app_pc = "loop_component" /\ app_pc' \in {"loop_select", "loop_delay"}

\* C40: elapsed is last_op_end_time - last_loop_ modulo the width of the clock;
\* whenever the sleep branch is taken elapsed is below loop_interval_, so
\* loop_interval_ - elapsed does not underflow and the requested sleep is
\* between 0 and loop_interval_, also in the iteration in which the clock wraps.
C40_SleepAcrossWrap ==
    [][Sleeps =>
          /\ elapsed' \in 0..(ClockModulus - 1)
          /\ (last_loop_ + elapsed') % ClockModulus = last_op_end_time
          /\ elapsed' < loop_interval_
          /\ delay_time' >= 0
          /\ delay_time' <= loop_interval_ - elapsed'
          /\ delay_time' <= loop_interval_]_vars

\* the sleep branch was taken in an iteration in which the clock wrapped: the
\* work ended at a smaller clock value than the previous iteration's
C40_Witness ==
    /\ app_pc \in {"loop_select", "loop_delay"}
    /\ Last(loop_log) \in {"select", "delay"}
    /\ last_op_end_time < last_loop_
    /\ elapsed > 0
    /\ delay_time > 0
    /\ delay_time = loop_interval_ - elapsed

====
